---------------------------- MODULE Spec2Model ----------------------------
(***************************************************************************)
(* Model of app/services/vllm_integration_service.py: the vLLM streaming   *)
(* integration service (VLLMIntegrationService), its connection            *)
(* management, request payloads, the line-oriented event stream and the    *)
(* synchronous wrapper around it.                                          *)
(*                                                                         *)
(* Conventions.  Text is a sequence of atoms (strings standing for a       *)
(* lexical piece of the text), concatenation is \o and the empty string    *)
(* is << >>; the atom "FENCE" is a code fence.  Fractions (temperature,    *)
(* top_p) are integers in units of 1/10000.  Python's None is the string   *)
(* "None"; a falsy number is 0.                                            *)
(* A coroutine runs atomically from one await or yield to the next, so     *)
(* every action below is the code between two suspension points.           *)
(***************************************************************************)
EXTENDS Integers, Sequences, FiniteSets, TLC

(***************************************************************************)
(* Bounds of the model.                                                    *)
(***************************************************************************)
MaxText == 4        \* atoms in a text handed to the parser
MaxCode == 3        \* characters in a code string handed to the validator
MaxChunks == 2      \* data windows the backend delivers in one response
MaxLines == 2       \* lines in one read window
RetryBound == 5     \* no new call is started once connection_retries is here
MaxBodyLines == 2   \* lines of a response body delivered byte by byte
MaxIssues == 2      \* issues in a list handed to suggest_fix on its own
MaxCuts == 2        \* places where the transport cuts such a body
ProbeBound == 4     \* failed probes of one call: overlapping callers can keep
                    \* each other's connect() retrying without end

(***************************************************************************)
(* Program constants.                                                      *)
(***************************************************************************)
max_retries == 3
UserIdModulus == 1000000
base_temperature == 3000
base_max_tokens == 400
base_top_p == 8000
DefaultMaxTokens == 512
DefaultTemperature == 7000
DefaultTopP == 9000

Procs == {"p1", "p2"}

Min(a, b) == IF a < b THEN a ELSE b
Max(a, b) == IF a > b THEN a ELSE b

RECURSIVE Pow2(_)
Pow2(n) == IF n = 0 THEN 1 ELSE 2 * Pow2(n - 1)

RECURSIVE SeqsUpTo(_, _)
SeqsUpTo(S, n) ==
    IF n = 0 THEN {<< >>}
    ELSE LET shorter == SeqsUpTo(S, n - 1)
         IN  shorter \cup {Append(s, x) : s \in {t \in shorter : Len(t) = n - 1}, x \in S}

(***************************************************************************)
(* Requests, user preferences, complexity tiers.                           *)
(***************************************************************************)
ModelTypes == {"code_generation", "code_completion", "code_explanation",
               "code_review", "bug_fix", "code_optimization",
               "unit_test_generation", "documentation"}

ComplexityTiers == {"simple", "medium", "complex"}

\* self.model_mapping
model_mapping(t) ==
    CASE t = "code_generation"      -> "prompt"
      [] t = "code_completion"      -> "autocomplete"
      [] t = "code_explanation"     -> "comment"
      [] t = "code_review"          -> "comment"
      [] t = "bug_fix"              -> "error_fix"
      [] t = "code_optimization"    -> "prompt"
      [] t = "unit_test_generation" -> "prompt"
      [] t = "documentation"        -> "comment"
      [] OTHER                      -> "None"

\* dict.get(key, default) on the mapping
_map_hapa_to_vllm_model(t) ==
    IF model_mapping(t) = "None" THEN "prompt" ELSE model_mapping(t)

\* A preferences dict: a key that is not in the dict is "absent"; None and {}
\* are the falsy dict.
NoPrefs == [nonempty |-> FALSE, skill_level |-> "absent",
            code_style |-> "absent", safety_level |-> "absent"]

PrefsDicts ==
    {NoPrefs} \cup
    [nonempty : {TRUE},
     skill_level : {"absent", "beginner", "intermediate", "expert"},
     code_style : {"absent", "concise", "standard", "detailed"},
     safety_level : {"absent", "minimal", "standard", "enhanced"}]

Get(value, default) == IF value = "absent" THEN default ELSE value

\* hash() of a str, fixed within one process; hash("") is 0.
Hash(s) ==
    CASE s = ""          -> 0
      [] s = "alice"     -> 1345123457
      [] s = "anonymous" -> 1912000042
      [] OTHER           -> 1550000001

\* str(user_id or "anonymous")
UserIdOrAnonymous(u) == IF u = "" \/ u = "None" THEN "anonymous" ELSE u

SystemPrompt == <<"SYSTEM_PROMPT">>

\* app.api.endpoints.code_generation.build_personalized_prompt
build_personalized_prompt(base_prompt, prefs) ==
    <<"PERSONALIZED", prefs.skill_level, prefs.code_style>> \o base_prompt

\* request.context and request.context.strip()
ContextSection(context) ==
    IF context = << >> \/ \A i \in 1..Len(context) : context[i] \in {" ", "\n"}
    THEN << >>
    ELSE <<"\n\nCONTEXT:\n", "FENCE", "python", "\n">> \o context \o <<"\n", "FENCE">>

_build_enhanced_prompt(request, prefs, hookAvailable) ==
    LET base_prompt == SystemPrompt \o <<"\n\nREQUEST: ">> \o request.prompt
                       \o ContextSection(request.context)
                       \o <<"\n\nPython:\n", "FENCE", "python">>
    IN  IF prefs.nonempty
        THEN IF hookAvailable THEN build_personalized_prompt(base_prompt, prefs)
                              ELSE base_prompt
        ELSE base_prompt

\* A variant that leaves the value as it is.
Scaled_Unscaled(x, num, den) == x

\* x * (num / den), truncated as int() does for the token budget
Scaled(x, num, den) == (x * num) \div den

_prepare_vllm_payload(request, complexity, user_id, prefs, hookAvailable) ==
    LET skill_level == Get(prefs.skill_level, "intermediate")
        code_style == Get(prefs.code_style, "standard")
        safety_level == Get(prefs.safety_level, "standard")
        tokens0 == IF ~prefs.nonempty THEN base_max_tokens
                   ELSE IF skill_level = "beginner" THEN Scaled(base_max_tokens, 15, 10)
                   ELSE IF skill_level = "expert" THEN Scaled(base_max_tokens, 8, 10)
                   ELSE base_max_tokens
        temp0 == IF ~prefs.nonempty THEN base_temperature
                 ELSE IF code_style = "concise"
                      THEN Max(Scaled(base_temperature, 8, 10), 1000)
                 ELSE IF code_style = "detailed"
                      THEN Min(Scaled(base_temperature, 12, 10), 4000)
                 ELSE base_temperature
        top0 == IF ~prefs.nonempty THEN base_top_p
                ELSE IF safety_level = "enhanced"
                     THEN Max(Scaled(base_top_p, 9, 10), 7000)
                ELSE IF safety_level = "minimal"
                     THEN Min(Scaled(base_top_p, 11, 10), 9500)
                ELSE base_top_p
        temperature == IF complexity = "simple" THEN temp0
                       ELSE IF complexity = "medium" THEN Min(Scaled(temp0, 13, 10), 5000)
                       ELSE Min(Scaled(temp0, 16, 10), 7000)
        max_tokens == IF complexity = "simple" THEN tokens0
                      ELSE IF complexity = "medium" THEN Scaled(tokens0, 15, 10)
                      ELSE Scaled(tokens0, 20, 10)
        top_p == IF complexity = "simple" THEN top0
                 ELSE IF complexity = "medium" THEN Min(Scaled(top0, 11, 10), 9000)
                 ELSE Min(Scaled(top0, 12, 10), 9500)
    IN  [user_id |-> Hash(UserIdOrAnonymous(user_id)) % UserIdModulus,
         prompt |-> _build_enhanced_prompt(request, prefs, hookAvailable),
         model_type |-> _map_hapa_to_vllm_model(request.model_type),
         user_select_options |-> prefs,
         temperature |-> temperature,
         max_tokens |-> max_tokens,
         top_p |-> top_p]

\* x or default
OrDefault(x, default) == IF x = 0 THEN default ELSE x

\* The payload generate_code_streaming builds and posts.
StreamPayload(request, user_id, prefs) ==
    [user_id |-> Hash(user_id) % UserIdModulus,
     prompt |-> request.prompt,
     model_type |-> IF model_mapping(request.model_type) = "None"
                    THEN request.model_type
                    ELSE model_mapping(request.model_type),
     user_select_options |-> prefs,
     temperature |-> OrDefault(request.temperature, DefaultTemperature),
     max_tokens |-> OrDefault(request.max_tokens, DefaultMaxTokens),
     top_p |-> OrDefault(request.top_p, DefaultTopP)]


(***************************************************************************)
(* The event stream: lines of a read window and the events they yield.     *)
(***************************************************************************)
TokA == <<"FENCE", "print(1)", "FENCE">>
TokB == <<"\n">>
TokenTexts == {TokA, TokB}

\* A raw line of the response body: whether it starts with 'data: ', and
\* what follows the prefix (or the whole line when there is no prefix):
\* nothing, the [DONE] sentinel, a JSON object {type?, text?}, valid JSON
\* that is not an object, text that is not JSON, or anything else.
Line(prefix, kind, type, text) ==
    [prefix |-> prefix, kind |-> kind, type |-> type, text |-> text]

\* Every shape of line the service tells apart.
AllLines ==
    { Line(FALSE, "empty", "none", << >>),       \* ''
      Line(TRUE, "empty", "none", << >>),        \* 'data: '
      Line(FALSE, "other", "none", << >>),       \* ': ping'
      Line(FALSE, "obj", "none", TokA),          \* '{"text": ...}', no prefix
      Line(TRUE, "sentinel", "none", << >>),     \* 'data: [DONE]'
      Line(TRUE, "garbage", "none", << >>),      \* 'data: {"text": "fo'
      Line(TRUE, "nonobj", "none", << >>),       \* 'data: 5', 'data: null'
      Line(TRUE, "obj", "done", << >>),          \* 'data: {"type": "done"}'
      Line(TRUE, "obj", "done", TokA),
      Line(TRUE, "obj", "none", << >>),          \* 'data: {}', 'data: {"text": ""}'
      Line(TRUE, "obj", "none", TokA),           \* 'data: {"text": ...}'
      Line(TRUE, "obj", "none", TokB) }

\* The lines the backend sends in the streams explored: one line of each
\* way the service treats a line.
StreamLines ==
    { Line(TRUE, "empty", "none", << >>),
      Line(TRUE, "sentinel", "none", << >>),
      Line(TRUE, "garbage", "none", << >>),
      Line(TRUE, "nonobj", "none", << >>),
      Line(TRUE, "obj", "done", TokA),
      Line(TRUE, "obj", "none", TokA),
      Line(TRUE, "obj", "none", TokB) }

\* The windows a read can deliver: chunk_text.split('\n')
Windows == SeqsUpTo(StreamLines, MaxLines) \ {<< >>}

\* line.strip(): the keep-alive 'data: ' loses its trailing blank and with it
\* the 'data: ' prefix.
Strip(line) ==
    IF line.prefix /\ line.kind = "empty"
    THEN Line(FALSE, "other", "none", << >>)
    ELSE line

\* if line_text and line_text != 'data: '
PassesFilter(line_text) ==
    /\ ~(~line_text.prefix /\ line_text.kind = "empty")
    /\ ~(line_text.prefix /\ line_text.kind = "empty")

Event(type, content, is_complete) ==
    [type |-> type, content |-> content, is_complete |-> is_complete]

NoEvent == Event("None", << >>, FALSE)
DoneEvent == Event("done", << >>, TRUE)
TokenEvent(content) == Event("token", content, FALSE)

Returns(event) == [kind |-> "return", event |-> event, exc |-> "None"]
Raises(exc) == [kind |-> "raise", event |-> NoEvent, exc |-> exc]

\* A variant of the handler that looks at the text before the type.
ParsedPayload_TextFirst(line_text) ==
    IF line_text.kind = "obj" /\ line_text.text # << >>
    THEN [kind |-> "return",
          event |-> [type |-> "token", content |-> line_text.text,
                     is_complete |-> FALSE],
          exc |-> "None"]
    ELSE [kind |-> "return",
          event |-> [type |-> "done", content |-> << >>, is_complete |-> TRUE],
          exc |-> "None"]

\* json.loads(data_part) followed by parsed_data.get(...): what the payload
\* of a 'data: ' line makes of the handler.
ParsedPayload(line_text) ==
    CASE line_text.kind = "obj" ->
            IF line_text.type = "done" THEN Returns(DoneEvent)
            ELSE IF line_text.text # << >> THEN Returns(TokenEvent(line_text.text))
            ELSE Returns(NoEvent)
      [] line_text.kind = "nonobj" -> Raises("AttributeError")
      [] OTHER -> Returns(NoEvent)     \* json.JSONDecodeError

_process_stream_line(line_text) ==
    IF ~line_text.prefix /\ line_text.kind = "empty" THEN Returns(NoEvent)
    ELSE IF ~line_text.prefix THEN Returns(NoEvent)
    ELSE IF line_text.kind = "sentinel" THEN Returns(DoneEvent)
    ELSE ParsedPayload(line_text)

\* A variant of the non-200 event that carries the body and not the status.
ApiErrorEvent_BodyOnly(status, error_text) ==
    [type |-> "error", content |-> <<"API error: ", error_text>>, is_complete |-> TRUE]

\* The error events of generate_code_streaming.
ApiErrorEvent(status, error_text) == Event("error", <<"API error: ", status>>, TRUE)
TransferErrorEvent(e) == Event("error", <<"Transfer-Encoding error: ", e>>, TRUE)
StreamErrorEvent(e) == Event("error", <<"error: ", e>>, TRUE)

(***************************************************************************)
(* ResponseParser and the response of generate_code_sync.                  *)
(***************************************************************************)
IsSpace(a) == a \in {" ", "\n"}

\* not raw_response.strip()
IsBlank(text) == \A i \in 1..Len(text) : IsSpace(text[i])

Range(f) == {f[i] : i \in DOMAIN f}

\* len() of an atom, in characters
AtomLen(a) ==
    CASE a = "FENCE"                     -> 3
      [] a = "python"                    -> 6
      [] a = "print(1)"                  -> 8
      [] a = "x = 1"                     -> 5
      [] a = "def f(): pass"             -> 13
      [] a = "class A: pass"             -> 13
      [] a = "import os"                 -> 9
      [] a = "Explanation:"              -> 12
      [] a = "Note:"                     -> 5
      [] a = "does"                      -> 4
      [] a = "prints one to the console" -> 25
      [] OTHER                           -> 1

RECURSIVE TextLen(_)
TextLen(text) == IF text = << >> THEN 0 ELSE AtomLen(Head(text)) + TextLen(Tail(text))

\* The atoms the patterns of the parser tell apart.
DefAtoms == {"def f(): pass"}                \* def\s+\w+...
ClassAtoms == {"class A: pass"}              \* class\s+\w+...
PrintAtoms == {"print(1)"}                   \* print\s*\([^)]*\)
AssignAtoms == {"x = 1"}                     \* [a-zA-Z_]\w*\s*=.*
MarkdownAtoms == {"#", "-", "*", "="}        \* [#*\-=]+
\* self.explanation_markers
ExplanationMarkerAtoms == {"Explanation:", "Note:"}
\* 'def ', 'class ', 'import ', 'print(', '='
CodeLikeAtoms == DefAtoms \cup ClassAtoms \cup PrintAtoms \cup AssignAtoms
                 \cup {"import os", "="}

RECURSIVE LStrip(_)
LStrip(text) ==
    IF text # << >> /\ IsSpace(Head(text)) THEN LStrip(Tail(text)) ELSE text

RECURSIVE RStrip(_)
RStrip(text) ==
    IF text # << >> /\ IsSpace(text[Len(text)])
    THEN RStrip(SubSeq(text, 1, Len(text) - 1))
    ELSE text

\* str.strip()
Trim(text) == RStrip(LStrip(text))

IsNonEmpty(text) == text # << >>

\* The first code fence at or after position i, or 0.
RECURSIVE NextFence(_, _)
NextFence(text, i) ==
    IF i > Len(text) THEN 0
    ELSE IF text[i] = "FENCE" THEN i
    ELSE NextFence(text, i + 1)

\* The matches, from position i on, of the pattern for any fenced block and,
\* with tagged, of the pattern for a block tagged python (re.DOTALL): the
\* positions of the two fences and the group, which the \s* on its two
\* sides leave without blanks at its ends.
RECURSIVE FencedFrom(_, _, _)
FencedFrom(text, i, tagged) ==
    LET open == NextFence(text, i)
        start == IF tagged THEN open + 2 ELSE open + 1
        close == NextFence(text, start)
    IN  IF open = 0 THEN << >>
        ELSE IF tagged /\ ~(open < Len(text) /\ text[open + 1] = "python")
        THEN FencedFrom(text, open + 1, tagged)
        ELSE IF close = 0 THEN << >>
        ELSE <<[from |-> open, to |-> close,
                group |-> Trim(SubSeq(text, start, close - 1))]>>
             \o FencedFrom(text, close + 1, tagged)

\* block.strip() of every match
RECURSIVE Groups(_)
Groups(matches) ==
    IF matches = << >> THEN << >>
    ELSE <<Trim(Head(matches).group)>> \o Groups(Tail(matches))

\* The last position of the line that position i is on.
RECURSIVE EndOfLine(_, _)
EndOfLine(text, i) ==
    IF i >= Len(text) \/ text[i + 1] = "\n" THEN i ELSE EndOfLine(text, i + 1)

\* (?=\n\n|\Z) after position j
BlankLineOrEndAfter(text, j) ==
    \/ j = Len(text)
    \/ j + 2 <= Len(text) /\ text[j + 1] = "\n" /\ text[j + 2] = "\n"

\* re.findall of the def pattern (keyword atoms DefAtoms) and of the class
\* pattern, from position i on: from the keyword to the end of its line,
\* when a blank line or the end of the text follows.
RECURSIVE DefinitionMatches(_, _, _)
DefinitionMatches(text, i, keywordAtoms) ==
    IF i > Len(text) THEN << >>
    ELSE IF text[i] \in keywordAtoms /\ BlankLineOrEndAfter(text, EndOfLine(text, i))
    THEN <<Trim(SubSeq(text, i, EndOfLine(text, i)))>>
         \o DefinitionMatches(text, EndOfLine(text, i) + 1, keywordAtoms)
    ELSE DefinitionMatches(text, i + 1, keywordAtoms)

\* re.findall of the print pattern
RECURSIVE PrintMatches(_)
PrintMatches(text) ==
    IF text = << >> THEN << >>
    ELSE (IF Head(text) \in PrintAtoms THEN <<<<Head(text)>>>> ELSE << >>)
         \o PrintMatches(Tail(text))

\* Position i is the first atom of its line that is not a blank.
FirstOnLine(text, i) ==
    \A k \in 1..(i - 1) :
        (\A m \in k..(i - 1) : text[m] # "\n") => IsSpace(text[k])

\* re.findall of the assignment pattern (re.MULTILINE), each stripped
RECURSIVE AssignMatches(_, _)
AssignMatches(text, i) ==
    IF i > Len(text) THEN << >>
    ELSE IF text[i] \in AssignAtoms /\ FirstOnLine(text, i)
    THEN <<Trim(SubSeq(text, i, EndOfLine(text, i)))>>
         \o AssignMatches(text, EndOfLine(text, i) + 1)
    ELSE AssignMatches(text, i + 1)

\* The loop that drops duplicates and blocks under 3 characters.
RECURSIVE UniqueBlocks(_, _)
UniqueBlocks(code_blocks, unique_blocks) ==
    IF code_blocks = << >> THEN unique_blocks
    ELSE LET block == Head(code_blocks)
         IN  UniqueBlocks(Tail(code_blocks),
                          IF block # << >> /\ block \notin Range(unique_blocks)
                             /\ TextLen(block) >= 3
                          THEN Append(unique_blocks, block)
                          ELSE unique_blocks)

_extract_code_blocks(text) ==
    LET fenced == SelectSeq(Groups(FencedFrom(text, 1, TRUE))
                            \o Groups(FencedFrom(text, 1, FALSE)), IsNonEmpty)
        inline == SelectSeq(DefinitionMatches(text, 1, DefAtoms)
                            \o DefinitionMatches(text, 1, ClassAtoms)
                            \o PrintMatches(text)
                            \o AssignMatches(text, 1), IsNonEmpty)
    IN  UniqueBlocks(IF fenced # << >> THEN fenced ELSE inline, << >>)

\* re.sub(pattern, '', text) for the two fence patterns
RECURSIVE RemoveFenced(_, _)
RemoveFenced(text, tagged) ==
    LET matches == FencedFrom(text, 1, tagged)
    IN  IF matches = << >> THEN text
        ELSE SubSeq(text, 1, matches[1].from - 1)
             \o RemoveFenced(SubSeq(text, matches[1].to + 1, Len(text)), tagged)

\* text.replace(block, '')
RECURSIVE RemoveAll(_, _)
RemoveAll(text, block) ==
    IF block = << >> \/ Len(text) < Len(block) THEN text
    ELSE IF SubSeq(text, 1, Len(block)) = block
    THEN RemoveAll(SubSeq(text, Len(block) + 1, Len(text)), block)
    ELSE <<Head(text)>> \o RemoveAll(Tail(text), block)

RECURSIVE RemoveBlocks(_, _)
RemoveBlocks(text, code_blocks) ==
    IF code_blocks = << >> THEN text
    ELSE RemoveBlocks(RemoveAll(text, Head(code_blocks)), Tail(code_blocks))

\* text.split('\n')
RECURSIVE SplitLines(_)
SplitLines(text) ==
    IF text = << >> THEN <<<< >>>>
    ELSE IF Head(text) = "\n" THEN <<<< >>>> \o SplitLines(Tail(text))
    ELSE LET rest == SplitLines(Tail(text))
         IN  <<<<Head(text)>> \o Head(rest)>> \o Tail(rest)

\* '\n'.join(lines)
RECURSIVE JoinLines(_)
JoinLines(lines) ==
    IF lines = << >> THEN << >>
    ELSE IF Len(lines) = 1 THEN Head(lines)
    ELSE Head(lines) \o <<"\n">> \o JoinLines(Tail(lines))

\* any(marker in line for marker in self.explanation_markers)
HasMarker(line) == \E i \in 1..Len(line) : line[i] \in ExplanationMarkerAtoms

\* The test that keeps a stripped line as explanation.
IsExplanationLine(line) ==
    LET is_explanation == HasMarker(line)
        is_not_code == ~\E i \in 1..Len(line) : line[i] \in CodeLikeAtoms
    IN  line # << >> /\ (is_explanation \/ (is_not_code /\ TextLen(line) > 10))

RECURSIVE TrimEach(_)
TrimEach(lines) ==
    IF lines = << >> THEN << >> ELSE <<Trim(Head(lines))>> \o TrimEach(Tail(lines))

_extract_explanation(text, code_blocks) ==
    LET unfenced == RemoveFenced(RemoveFenced(text, TRUE), FALSE)
        explanation_text == RemoveBlocks(unfenced, code_blocks)
    IN  JoinLines(SelectSeq(TrimEach(SplitLines(explanation_text)), IsExplanationLine))

RECURSIVE UniqueOnly(_, _)
UniqueOnly(code_blocks, unique_blocks) ==
    IF code_blocks = << >> THEN unique_blocks
    ELSE UniqueOnly(Tail(code_blocks),
                    IF Head(code_blocks) \notin Range(unique_blocks)
                    THEN Append(unique_blocks, Head(code_blocks))
                    ELSE unique_blocks)

\* '\n\n'.join(unique_blocks)
RECURSIVE JoinBlocks(_)
JoinBlocks(blocks) ==
    IF blocks = << >> THEN << >>
    ELSE IF Len(blocks) = 1 THEN Head(blocks)
    ELSE Head(blocks) \o <<"\n", "\n">> \o JoinBlocks(Tail(blocks))

_merge_code_blocks(code_blocks) ==
    IF code_blocks = << >> THEN << >>
    ELSE JoinBlocks(UniqueOnly(code_blocks, << >>))

\* The first position at or after i whose atom is not one of atoms.
RECURSIVE SkipWhile(_, _, _)
SkipWhile(text, i, atoms) ==
    IF i <= Len(text) /\ text[i] \in atoms THEN SkipWhile(text, i + 1, atoms) ELSE i

\* re.sub(r'^[#*\-=]+\s*', '', explanation, flags=re.MULTILINE)
RECURSIVE StripMarkdown(_, _)
StripMarkdown(text, i) ==
    IF i > Len(text) THEN << >>
    ELSE IF (i = 1 \/ text[i - 1] = "\n") /\ text[i] \in MarkdownAtoms
    THEN StripMarkdown(text, SkipWhile(text, SkipWhile(text, i, MarkdownAtoms),
                                       {" ", "\n"}))
    ELSE <<text[i]>> \o StripMarkdown(text, i + 1)

\* The last newline of the run of blanks that starts at position i.
LastNewline(text, i) ==
    LET stop == SkipWhile(text, i, {" ", "\n"})
    IN  CHOOSE b \in i..(stop - 1) :
            text[b] = "\n" /\ \A k \in (b + 1)..(stop - 1) : text[k] # "\n"

\* re.sub(r'\n\s*\n\s*\n', '\n\n', explanation)
RECURSIVE CollapseBlankLines(_, _)
CollapseBlankLines(text, i) ==
    IF i > Len(text) THEN << >>
    ELSE IF text[i] = "\n"
            /\ Cardinality({k \in i..LastNewline(text, i) : text[k] = "\n"}) >= 3
    THEN <<"\n", "\n">> \o CollapseBlankLines(text, LastNewline(text, i) + 1)
    ELSE <<text[i]>> \o CollapseBlankLines(text, i + 1)

_clean_explanation(explanation) ==
    IF explanation = << >> THEN << >>
    ELSE Trim(CollapseBlankLines(StripMarkdown(explanation, 1), 1))

\* Confidence in tenths: 5 is 0.5.
_calculate_confidence(explanation, code) ==
    LET confidence ==
            5 + (IF code # << >> /\ TextLen(code) > 10 THEN 3 ELSE 0)
              + (IF explanation # << >> /\ TextLen(explanation) > 20 THEN 2 ELSE 0)
              + (IF explanation # << >> /\ code # << >> /\ HasMarker(explanation)
                 THEN 1 ELSE 0)
    IN  Min(10, confidence)

NoMetadata == [code_blocks_found |-> 0, has_explanation |-> FALSE,
               parsing_confidence |-> 0]

\* The dict parse_response returns; has_metadata tells whether it has the
\* "metadata" key.
ParsedResponse(code_blocks, final_explanation, final_code) ==
    [explanation |-> final_explanation, code |-> final_code,
     has_metadata |-> TRUE,
     metadata |-> [code_blocks_found |-> Len(code_blocks),
                   has_explanation |-> final_explanation # << >>,
                   parsing_confidence |->
                       _calculate_confidence(final_explanation, final_code)]]

\* parse_response from step 2 on, given the code blocks of step 1.
ParseWithBlocks(raw_response, code_blocks) ==
    ParsedResponse(code_blocks,
                   _clean_explanation(_extract_explanation(raw_response, code_blocks)),
                   _merge_code_blocks(code_blocks))

parse_response(raw_response) ==
    IF raw_response = << >> \/ IsBlank(raw_response)
    THEN [explanation |-> << >>, code |-> << >>, has_metadata |-> FALSE,
          metadata |-> NoMetadata]
    ELSE ParseWithBlocks(raw_response, _extract_code_blocks(raw_response))

CodeGenerationResponse(success, generated_code, explanation, error_message, confidence) ==
    [success |-> success, generated_code |-> generated_code,
     explanation |-> explanation, error_message |-> error_message,
     model_used |-> "vllm", confidence_score |-> confidence]

NoResponse ==
    [success |-> FALSE, generated_code |-> << >>, explanation |-> << >>,
     error_message |-> << >>, model_used |-> "None", confidence_score |-> 0]

\* A variant of the error branch that returns what was parsed so far as a
\* success.
SyncErrorResponse_Partial(chunk) ==
    CodeGenerationResponse(TRUE, chunk.content, << >>, << >>, 0)

\* generate_code_sync, the error branch of the loop
SyncErrorResponse(chunk) ==
    CodeGenerationResponse(FALSE, << >>, << >>, chunk.content, 0)

\* generate_code_sync, except Exception
SyncExcept(e) ==
    CodeGenerationResponse(FALSE, << >>, << >>, <<"generation failed: ", e>>, 0)

\* generate_code_sync, the token branch of the loop
Accumulate(accumulated, chunk) ==
    IF chunk.type = "token" THEN accumulated \o chunk.content ELSE accumulated

\* generate_code_sync after the loop, given the parsed text: build the
\* response; a missing "metadata" key is a KeyError, which the method's
\* except clause turns into a failure response.
SyncResponse(parsed_response) ==
    IF ~parsed_response.has_metadata
    THEN SyncExcept("KeyError: metadata")
    ELSE CodeGenerationResponse(TRUE, parsed_response.code,
                                parsed_response.explanation, << >>,
                                parsed_response.metadata.parsing_confidence)

\* generate_code_sync after the loop: parse the accumulated text and respond.
SyncResult(accumulated) == SyncResponse(parse_response(accumulated))

(***************************************************************************)
(* State.                                                                  *)
(***************************************************************************)
VARIABLES
    session,              \* self.session: "None", "open", or "closed" (closed
                          \* by disconnect, not yet set to None)
    is_connected,         \* self.is_connected
    connection_retries,   \* self.connection_retries
    metrics,              \* total_requests, successful_requests, failed_requests
    op,                   \* per caller: the service method it is running
    pc,                   \* per caller: where that method is suspended
    outcome,              \* per caller: "none", "returned" or "raised"
    retval,               \* per caller: the value returned or the exception raised
    probes,               \* per caller: failed probes of the connect() it runs
    sleeps,               \* per caller: backoff sleeps of the connect() it runs
    startRetries,         \* per caller: connection_retries when connect() was called
    request,              \* per caller: arguments of the streaming call
    posted,               \* per caller: JSON body of the POST in flight
    status,               \* per caller: response.status
    nread,                \* per caller: chunks read from the response body
    window,               \* per caller: lines of the current chunk not yet processed
    arrived,              \* per caller: token texts and done signals read so far
    events,               \* per caller: events yielded so far
    fault,                \* per caller: where the call failed, and with what
    accumulated_content,  \* per caller: generate_code_sync's accumulator
    response,             \* per caller: generate_code_sync's return value
    previous,             \* per caller in disconnect(): the method its
                          \* previous call ran
    scenario,             \* what the run explores: the methods the API layer
                          \* calls and how the backend behaves
    parseArg,             \* the text handed to ResponseParser.parse_response
    parseResult,          \* what parse_response returned for it
    validatorCall,        \* the method of CodeQualityValidator called, with its
                          \* arguments
    validatorResult,      \* what that method returned
    payloadCall,          \* the arguments _prepare_vllm_payload was called with
    payloadResult,        \* the payload it returned
    readCall,             \* a response body and the places where the transport
                          \* cuts it into chunks
    readResult            \* the events the chunk loop yields for it

service == <<session, is_connected, connection_retries, metrics>>
frame == <<op, pc, outcome, retval>>
connecting == <<probes, sleeps, startRetries>>
streaming == <<request, posted, status, nread, window, arrived, events, fault>>
syncing == <<accumulated_content, response>>
\* The arguments and results of the functions that keep no state
\* (ResponseParser, CodeQualityValidator), called on their own.
parserVars == <<parseArg, parseResult>>
validatorVars == <<validatorCall, validatorResult>>
payloadVars == <<payloadCall, payloadResult>>
readVars == <<readCall, readResult>>
functions == <<parserVars, validatorVars, payloadVars, readVars>>
history == <<previous>>
environment == <<scenario>>
vars == <<service, frame, connecting, streaming, syncing, functions, history,
          environment>>

(***************************************************************************)
(* Inputs: the calls the API layer makes and the backend's answers.        *)
(***************************************************************************)
Ops == {"connect", "disconnect", "health_check", "stream", "sync"}

Request(prompt, context, model_type, max_tokens, temperature, top_p) ==
    [prompt |-> prompt, context |-> context, model_type |-> model_type,
     max_tokens |-> max_tokens, temperature |-> temperature, top_p |-> top_p]

Requests ==
    { Request(<<"sort a list">>, << >>, "code_generation", 0, 0, 0),
      Request(<<"fix this">>, <<"x = 1">>, "bug_fix", base_max_tokens,
              base_temperature, base_top_p) }

UserIds == {"alice", ""}

SomePrefs == [nonempty |-> TRUE, skill_level |-> "beginner",
              code_style |-> "concise", safety_level |-> "enhanced"]

CallPrefs == {NoPrefs, SomePrefs}

Args(r, u, prefs) == [request |-> r, user_id |-> u, user_preferences |-> prefs]

NoArgs == Args(Request(<< >>, << >>, "None", 0, 0, 0), "None", NoPrefs)

StreamArgs == {Args(r, u, prefs) : r \in Requests, u \in UserIds, prefs \in CallPrefs}

NoPayload == StreamPayload(NoArgs.request, "", NoPrefs)

\* What a GET /health can come to other than a 200.
ProbeFailures == {"503", "ClientConnectorError", "TimeoutError"}
\* What a POST /generate/stream can come to other than a response.
PostFailures == {"ClientConnectorError", "TimeoutError"}
ErrorStatuses == {"500", "404"}
ErrorBodies == {"overloaded"}
\* What reading the body can raise.
ReadFailures == {"ClientPayloadError", "TimeoutError"}

(***************************************************************************)
(* Init.                                                                   *)
(***************************************************************************)
Set(f, p, v) == [f EXCEPT ![p] = v]

\* A record of how the backend failed a call; the service does not read it.
Fault(where, what) == <<where, what>>
NoFault == Fault("None", "None")

\* The service as __init__ leaves it, no call made.
ServiceInit ==
    /\ session = "None"
    /\ is_connected = FALSE
    /\ connection_retries = 0
    /\ metrics = [total_requests |-> 0, successful_requests |-> 0,
                  failed_requests |-> 0]
    /\ op = [p \in Procs |-> "None"]
    /\ pc = [p \in Procs |-> "idle"]
    /\ outcome = [p \in Procs |-> "none"]
    /\ retval = [p \in Procs |-> "None"]
    /\ probes = [p \in Procs |-> 0]
    /\ sleeps = [p \in Procs |-> << >>]
    /\ startRetries = [p \in Procs |-> 0]
    /\ request = [p \in Procs |-> NoArgs]
    /\ posted = [p \in Procs |-> NoPayload]
    /\ status = [p \in Procs |-> "None"]
    /\ nread = [p \in Procs |-> 0]
    /\ window = [p \in Procs |-> << >>]
    /\ arrived = [p \in Procs |-> << >>]
    /\ events = [p \in Procs |-> << >>]
    /\ fault = [p \in Procs |-> NoFault]
    /\ accumulated_content = [p \in Procs |-> << >>]
    /\ response = [p \in Procs |-> NoResponse]
    /\ previous = [p \in Procs |-> "None"]

\* A function called on its own has a result variable that is << >> before
\* the call and <<value>> once it has returned.
NotCalled == << >>

ParserIdle == parseArg = << >> /\ parseResult = NotCalled

\* A call of a method of CodeQualityValidator: the code and, for suggest_fix,
\* the issue list; ast_issues is what _check_ast_validity finds in the code.
ValidatorCall(method, code, issues, ast_issues) ==
    [method |-> method, code |-> code, issues |-> issues, ast_issues |-> ast_issues]

NoValidatorCall == ValidatorCall("None", << >>, << >>, << >>)

ValidatorIdle == validatorCall = NoValidatorCall /\ validatorResult = NotCalled

PayloadIdle == payloadCall = << >> /\ payloadResult = NotCalled

ReadIdle == readCall = << >> /\ readResult = NotCalled

FunctionsIdle == ParserIdle /\ ValidatorIdle /\ PayloadIdle /\ ReadIdle

\* A run: the methods that are called in it, and whether the backend may
\* fail ("any") or answers every request well ("healthy").
Scenario(ops, backend) == [ops |-> ops, backend |-> backend]

Unrestricted == Scenario(Ops, "any")

BackendMayFail == scenario.backend = "any"

\* A healthy backend answers caller p with lines of p's own response: a
\* keep-alive line, the [DONE] sentinel, or a token line whose text tells the
\* two responses apart.
ResponseToken(p) == IF p = "p1" THEN TokA ELSE TokB

HealthyLines(p) ==
    { Line(TRUE, "empty", "none", << >>),
      Line(TRUE, "sentinel", "none", << >>),
      Line(TRUE, "obj", "none", ResponseToken(p)) }

\* The windows a read of caller p's response body can deliver.
ArrivingWindows(p) ==
    IF BackendMayFail THEN Windows
    ELSE SeqsUpTo(HealthyLines(p), MaxLines) \ {<< >>}

Init == ServiceInit /\ FunctionsIdle /\ scenario = Unrestricted

(***************************************************************************)
(* Leaving a method.                                                       *)
(***************************************************************************)
\* The method of caller p returns val or raises val.
Finish(p, how, val) ==
    /\ pc' = Set(pc, p, "done")
    /\ outcome' = Set(outcome, p, how)
    /\ retval' = Set(retval, p, val)

\* A variant of the outer except clause that catches ConnectionError only.
OuterExcept_ConnectionErrorOnly(e) ==
    [caught |-> e = "ConnectionError",
     event |-> [type |-> "error", content |-> <<"error: ", e>>, is_complete |-> TRUE]]

\* The except clauses of generate_code_streaming: whether the clause catches
\* exception e and the event it yields.
OuterExcept(e) == [caught |-> TRUE, event |-> StreamErrorEvent(e)]
ReadExcept(e) == [caught |-> TRUE, event |-> TransferErrorEvent(e)]
ChunkExcept(e) == [caught |-> TRUE, event |-> NoEvent]

\* A variant of the loop that reads on after a done event.
ReturnsAfterYield_Never(result) == FALSE

\* if result.get('type') == 'done': return
ReturnsAfterYield(result) == result.type = "done"

\* generate_code_streaming yields event ev to its consumer and then either
\* ends (returns) or goes on to nextpc.  The consumer is the API layer (op
\* "stream"), which only receives, or generate_code_sync (op "sync"), which
\* accumulates a token, breaks on done and returns on error; its loop also
\* ends when the generator does.
Emit(p, ev, returns, nextpc) ==
    LET consumerStops == op[p] = "sync" /\ ev.type \in {"done", "error"}
        over == returns \/ consumerStops
        acc == Accumulate(accumulated_content[p], ev)
    IN  /\ events' = Set(events, p, Append(events[p], ev))
        /\ pc' = Set(pc, p, IF over THEN "done" ELSE nextpc)
        /\ outcome' = Set(outcome, p, IF over THEN "returned" ELSE outcome[p])
        /\ retval' = retval
        /\ IF op[p] = "sync"
           THEN /\ accumulated_content' = Set(accumulated_content, p, acc)
                /\ response' = Set(response, p,
                        IF ~over THEN response[p]
                        ELSE IF ev.type = "error" THEN SyncErrorResponse(ev)
                        ELSE SyncResult(acc))
           ELSE UNCHANGED syncing

\* Exception e leaves generate_code_streaming: the API layer gets it, and
\* generate_code_sync catches it.
Propagate(p, e) ==
    /\ events' = events
    /\ IF op[p] = "sync"
       THEN /\ Finish(p, "returned", "None")
            /\ accumulated_content' = accumulated_content
            /\ response' = Set(response, p, SyncExcept(e))
       ELSE /\ Finish(p, "raised", e)
            /\ UNCHANGED syncing

\* Exception e is raised in the body of generate_code_streaming's outer try,
\* in its chunk loop, or while it handles one chunk.
RaiseInStream(p, e) ==
    IF OuterExcept(e).caught THEN Emit(p, OuterExcept(e).event, TRUE, "done")
    ELSE Propagate(p, e)

RaiseInRead(p, e) ==
    IF ReadExcept(e).caught THEN Emit(p, ReadExcept(e).event, TRUE, "done")
    ELSE RaiseInStream(p, e)

(***************************************************************************)
(* Calls.                                                                  *)
(***************************************************************************)
\* The API layer calls a method of the service: the coroutine (or the
\* generator) exists and has not run yet.
Call(p) ==
    /\ pc[p] \in {"idle", "done"}
    /\ UNCHANGED <<functions, environment>>
    /\ connection_retries < RetryBound
    /\ \E o \in scenario.ops :
         \E a \in (IF o \in {"stream", "sync"} THEN StreamArgs ELSE {NoArgs}) :
            /\ op' = Set(op, p, o)
            /\ request' = Set(request, p, a)
    /\ pc' = Set(pc, p, "start")
    /\ outcome' = Set(outcome, p, "none")
    /\ retval' = Set(retval, p, "None")
    /\ probes' = Set(probes, p, 0)
    /\ sleeps' = Set(sleeps, p, << >>)
    /\ startRetries' = Set(startRetries, p, 0)
    /\ posted' = Set(posted, p, NoPayload)
    /\ status' = Set(status, p, "None")
    /\ nread' = Set(nread, p, 0)
    /\ window' = Set(window, p, << >>)
    /\ arrived' = Set(arrived, p, << >>)
    /\ events' = Set(events, p, << >>)
    /\ fault' = Set(fault, p, NoFault)
    /\ accumulated_content' = Set(accumulated_content, p, << >>)
    /\ response' = Set(response, p, NoResponse)
    /\ previous' = Set(previous, p,
                       IF op'[p] = "disconnect" THEN op[p] ELSE "None")
    /\ UNCHANGED service

(***************************************************************************)
(* connect()                                                               *)
(***************************************************************************)
\* if self.session is None: self.session = aiohttp.ClientSession(...)
SessionAfterEntry(s) == IF s = "None" THEN "open" ELSE s

\* connect() is entered by caller p, from the API layer or from
\* health_check / generate_code_streaming: up to the await of the probe.
EnterConnect(p) ==
    /\ session' = SessionAfterEntry(session)
    /\ pc' = Set(pc, p, "probing")
    /\ probes' = Set(probes, p, 0)
    /\ sleeps' = Set(sleeps, p, << >>)
    /\ startRetries' = Set(startRetries, p, connection_retries)

ConnectBegin(p) ==
    /\ pc[p] = "start" /\ op[p] = "connect"
    /\ UNCHANGED <<functions, history, environment>>
    /\ EnterConnect(p)
    /\ UNCHANGED <<is_connected, connection_retries, metrics, op, outcome, retval,
                   streaming, syncing>>

\* self.session.post(...) right after the connection is known to be up.
IssuePost(p) ==
    /\ pc' = Set(pc, p, "posting")
    /\ posted' = Set(posted, p, StreamPayload(request[p].request, request[p].user_id,
                                              request[p].user_preferences))
    /\ UNCHANGED <<outcome, retval, request, status, nread, window, arrived, events,
                   fault, syncing>>

\* connect() has returned into health_check or generate_code_streaming:
\* its frame is gone.
LeaveConnect(p) ==
    /\ probes' = Set(probes, p, 0)
    /\ sleeps' = Set(sleeps, p, << >>)
    /\ startRetries' = Set(startRetries, p, 0)

\* A variant of the success branch that leaves the retry counter alone.
ProbeSucceeded_KeepsRetries(retries) ==
    [is_connected |-> TRUE, connection_retries |-> retries]

\* if response.status == 200: self.is_connected = True;
\* self.connection_retries = 0
ProbeSucceeded(retries) == [is_connected |-> TRUE, connection_retries |-> 0]

\* The probe answers 200.  The answer of a probe in flight is handled
\* whatever another caller has done to self.session since the GET was issued.
ProbeOk(p) ==
    /\ pc[p] = "probing"
    /\ UNCHANGED <<functions, history, environment>>
    /\ is_connected' = ProbeSucceeded(connection_retries).is_connected
    /\ connection_retries' = ProbeSucceeded(connection_retries).connection_retries
    /\ UNCHANGED <<session, metrics, op>>
    /\ CASE op[p] = "connect" ->
              /\ Finish(p, "returned", "None")
              /\ UNCHANGED <<connecting, streaming, syncing>>
         [] op[p] = "health_check" ->
              /\ pc' = Set(pc, p, "hc_probing")
              /\ LeaveConnect(p)
              /\ UNCHANGED <<outcome, retval, streaming, syncing>>
         [] OTHER ->
              /\ IssuePost(p)
              /\ LeaveConnect(p)

\* A variant of health_check whose except clauses report a healthy server.
HealthExcept_True(e) == "True"

\* health_check, except ...: return False
HealthExcept(e) == "False"

\* A variant of the test that retries whatever the counter says.
ShouldRetry_Always(retries) == TRUE

\* if self.connection_retries < self.max_retries
ShouldRetry(retries) == retries < max_retries

\* A variant of the backoff that starts at one second.
BackoffDelay_FromOne(retries) == Pow2(retries - 1)

\* 2 ** self.connection_retries
BackoffDelay(retries) == Pow2(retries)

\* The probe fails (non-200 status or exception): count it, then back off
\* and retry, or raise ConnectionError to whoever called connect().
ProbeFail(p) ==
    /\ pc[p] = "probing"
    /\ UNCHANGED <<functions, history, environment>>
    /\ BackendMayFail
    /\ probes[p] < ProbeBound
    /\ \E e \in ProbeFailures :
         LET retries == connection_retries + 1
         IN  /\ is_connected' = FALSE
             /\ connection_retries' = retries
             /\ probes' = Set(probes, p, probes[p] + 1)
             /\ UNCHANGED <<session, metrics, op, startRetries>>
             /\ IF ShouldRetry(retries)
                THEN /\ pc' = Set(pc, p, "sleeping")
                     /\ sleeps' = Set(sleeps, p, Append(sleeps[p], BackoffDelay(retries)))
                     /\ UNCHANGED <<outcome, retval, streaming, syncing>>
                ELSE /\ sleeps' = sleeps
                     /\ CASE op[p] = "connect" ->
                               /\ Finish(p, "raised", "ConnectionError")
                               /\ UNCHANGED <<streaming, syncing>>
                          [] op[p] = "health_check" ->
                               /\ Finish(p, "returned", HealthExcept("ConnectionError"))
                               /\ fault' = Set(fault, p, Fault("connect", e))
                               /\ UNCHANGED <<request, posted, status, nread, window,
                                              arrived, events, syncing>>
                          [] OTHER ->
                               /\ RaiseInStream(p, "ConnectionError")
                               /\ fault' = Set(fault, p, Fault("connect", e))
                               /\ UNCHANGED <<request, posted, status, nread, window,
                                              arrived>>

\* The backoff sleep is over: await self.connect(), the recursive call.
SleepDone(p) ==
    /\ pc[p] = "sleeping"
    /\ UNCHANGED <<functions, history, environment>>
    /\ session' = SessionAfterEntry(session)
    /\ pc' = Set(pc, p, "probing")
    /\ UNCHANGED <<is_connected, connection_retries, metrics, op, outcome, retval,
                   connecting, streaming, syncing>>

(***************************************************************************)
(* disconnect()                                                            *)
(***************************************************************************)
\* A variant of the test that takes the session for present whatever it is.
SessionPresent_Always(s) == TRUE

\* if self.session
SessionPresent(s) == s # "None"

\* if self.session: await self.session.close()
Disconnect(p) ==
    /\ pc[p] = "start" /\ op[p] = "disconnect"
    /\ UNCHANGED <<functions, history, environment>>
    /\ IF SessionPresent(session)
       THEN /\ session' = "closed"
            /\ pc' = Set(pc, p, "closing")
            /\ UNCHANGED <<is_connected, outcome, retval>>
       ELSE /\ is_connected' = FALSE
            /\ Finish(p, "returned", "None")
            /\ session' = session
    /\ UNCHANGED <<connection_retries, metrics, op, connecting, streaming, syncing>>

\* self.session = None; self.is_connected = False
DisconnectFinish(p) ==
    /\ pc[p] = "closing"
    /\ UNCHANGED <<functions, history, environment>>
    /\ session' = "None"
    /\ is_connected' = FALSE
    /\ Finish(p, "returned", "None")
    /\ UNCHANGED <<connection_retries, metrics, op, connecting, streaming, syncing>>

(***************************************************************************)
(* health_check()                                                          *)
(***************************************************************************)
\* if not self.session: await self.connect(); then the GET of /health
HealthBegin(p) ==
    /\ pc[p] = "start" /\ op[p] = "health_check"
    /\ UNCHANGED <<functions, history, environment>>
    /\ IF session = "None"
       THEN EnterConnect(p)
       ELSE /\ pc' = Set(pc, p, "hc_probing")
            /\ UNCHANGED <<session, connecting>>
    /\ UNCHANGED <<is_connected, connection_retries, metrics, op, outcome, retval,
                   streaming, syncing>>

\* The GET of /health: a 200 answer whose body is then read (True), a 200
\* answer whose body cannot be read, another status, or no answer.
HealthProbeResult(p) ==
    /\ pc[p] = "hc_probing"
    /\ UNCHANGED <<functions, history, environment>>
    /\ \/ /\ session = "open"
          /\ status' = Set(status, p, "200")
          /\ \/ /\ Finish(p, "returned", "True")
                /\ fault' = fault
             \/ \E e \in ReadFailures :
                   /\ Finish(p, "returned", HealthExcept(e))
                   /\ fault' = Set(fault, p, Fault("body", e))
       \/ \E e \in ProbeFailures :
             IF e = "503"
             THEN /\ status' = Set(status, p, e)
                  /\ Finish(p, "returned", "False")
                  /\ fault' = Set(fault, p, Fault("status", e))
             ELSE /\ status' = status
                  /\ Finish(p, "returned", HealthExcept(e))
                  /\ fault' = Set(fault, p, Fault("get", e))
    /\ UNCHANGED <<service, op, connecting, request, posted, nread, window, arrived,
                   events, syncing>>

(***************************************************************************)
(* generate_code_streaming() and generate_code_sync() around it            *)
(***************************************************************************)
\* What the lines of a window signal, in order: the text of each well-formed
\* text-carrying line and DoneMark for each line that signals the end.  This
\* is a record of what arrived; the service does not read it.
DoneMark == <<"[DONE]">>

IsTokenLine(l) == l.prefix /\ l.kind = "obj" /\ l.type # "done" /\ l.text # << >>
IsDoneLine(l) == l.prefix /\ (l.kind = "sentinel" \/ (l.kind = "obj" /\ l.type = "done"))

RECURSIVE Signals(_)
Signals(w) ==
    IF w = << >> THEN << >>
    ELSE (IF IsTokenLine(Head(w)) THEN <<Head(w).text>>
          ELSE IF IsDoneLine(Head(w)) THEN <<DoneMark>>
          ELSE << >>) \o Signals(Tail(w))

\* The payload is built and, if not self.is_connected, connect() is entered;
\* otherwise the POST is issued at once on self.session.
StreamBegin(p) ==
    /\ pc[p] = "start" /\ op[p] \in {"stream", "sync"}
    /\ UNCHANGED <<functions, history, environment>>
    /\ UNCHANGED <<is_connected, connection_retries, metrics, op>>
    /\ IF ~is_connected
       THEN /\ EnterConnect(p)
            /\ UNCHANGED <<outcome, retval, streaming, syncing>>
       ELSE /\ UNCHANGED <<session, connecting>>
            /\ IF session = "None"
               THEN /\ RaiseInStream(p, "AttributeError")
                    /\ fault' = Set(fault, p, Fault("session", "AttributeError"))
                    /\ UNCHANGED <<request, posted, status, nread, window, arrived>>
               ELSE IssuePost(p)

\* The backend answers the POST, or the request fails.  The arguments of the
\* call are not read again after this point.
PostResult(p) ==
    /\ pc[p] = "posting"
    /\ UNCHANGED <<functions, history, environment>>
    /\ posted' = Set(posted, p, NoPayload)
    /\ request' = Set(request, p, NoArgs)
    /\ UNCHANGED <<service, op, connecting, nread, window, arrived>>
    /\ \/ /\ session = "open"
          /\ \E st \in {"200"} \cup (IF BackendMayFail THEN ErrorStatuses ELSE {}) :
               /\ status' = Set(status, p, st)
               /\ pc' = Set(pc, p, IF st = "200" THEN "reading" ELSE "err_body")
               /\ fault' = Set(fault, p, IF st = "200" THEN NoFault
                                         ELSE Fault("status", st))
          /\ UNCHANGED <<outcome, retval, events, syncing>>
       \/ /\ BackendMayFail
          /\ \E e \in PostFailures :
               /\ RaiseInStream(p, e)
               /\ fault' = Set(fault, p, Fault("post", e))
          /\ status' = status

\* response.status != 200: error_text = await response.text(), then the
\* error event.
ErrBody(p) ==
    /\ pc[p] = "err_body"
    /\ UNCHANGED <<functions, history, environment>>
    /\ UNCHANGED <<service, op, connecting, request, posted, status, nread, window,
                   arrived>>
    /\ \/ /\ \E error_text \in ErrorBodies :
               Emit(p, ApiErrorEvent(status[p], error_text), TRUE, "done")
          /\ fault' = fault
       \/ \E e \in ReadFailures :
             /\ RaiseInStream(p, e)
             /\ fault' = Set(fault, p, Fault("body", e))

\* async for chunk in response.content.iter_chunked(8192): the next chunk, an
\* empty or undecodable chunk, an I/O error, or the end of the body.
ReadChunk(p) ==
    /\ pc[p] = "reading"
    /\ UNCHANGED <<functions, history, environment>>
    /\ UNCHANGED <<service, op, connecting, request, posted, status>>
    /\ \/ /\ nread[p] < MaxChunks
          /\ \E w \in ArrivingWindows(p) :
               /\ window' = Set(window, p, w)
               /\ arrived' = Set(arrived, p, arrived[p] \o Signals(w))
          /\ nread' = Set(nread, p, nread[p] + 1)
          /\ pc' = Set(pc, p, "lines")
          /\ UNCHANGED <<outcome, retval, events, fault, syncing>>
       \/ /\ nread[p] < MaxChunks
          /\ BackendMayFail
          /\ \E c \in {"empty", "UnicodeDecodeError"} :
               IF c = "empty" \/ ChunkExcept(c).caught
               THEN /\ nread' = Set(nread, p, nread[p] + 1)
                    /\ UNCHANGED <<pc, outcome, retval, events, syncing>>
               ELSE /\ RaiseInRead(p, c)
                    /\ nread' = nread
          /\ UNCHANGED <<window, arrived, fault>>
       \/ /\ BackendMayFail
          /\ \E e \in ReadFailures :
               /\ RaiseInRead(p, e)
               /\ fault' = Set(fault, p, Fault("read", e))
          /\ UNCHANGED <<nread, window, arrived>>
       \/ /\ Emit(p, DoneEvent, TRUE, "done")
          /\ UNCHANGED <<nread, window, arrived, fault>>

\* for line in lines: the next line of the chunk is stripped, filtered and
\* handed to _process_stream_line; an event is yielded, and the generator
\* returns after a done event.  An exception abandons the rest of the chunk.
ProcessLine(p) ==
    /\ pc[p] = "lines"
    /\ UNCHANGED <<functions, history, environment>>
    /\ UNCHANGED <<service, op, connecting, request, posted, status, nread, arrived,
                   fault>>
    /\ LET line_text == Strip(Head(window[p]))
           rest == Tail(window[p])
           next == IF rest = << >> THEN "reading" ELSE "lines"
           result == _process_stream_line(line_text)
           skip == /\ window' = Set(window, p, rest)
                   /\ pc' = Set(pc, p, next)
                   /\ UNCHANGED <<outcome, retval, events, syncing>>
       IN  IF ~PassesFilter(line_text) THEN skip
           ELSE IF result.kind = "raise"
           THEN IF ChunkExcept(result.exc).caught
                THEN /\ window' = Set(window, p, << >>)
                     /\ pc' = Set(pc, p, "reading")
                     /\ UNCHANGED <<outcome, retval, events, syncing>>
                ELSE /\ RaiseInRead(p, result.exc)
                     /\ window' = Set(window, p, << >>)
           ELSE IF result.event = NoEvent THEN skip
           ELSE /\ Emit(p, result.event, ReturnsAfterYield(result.event), next)
                /\ window' = Set(window, p,
                                 IF ReturnsAfterYield(result.event) THEN << >> ELSE rest)

(***************************************************************************)
(* Specification: one caller at a time.                                    *)
(***************************************************************************)
Step(p) ==
    \/ Call(p)
    \/ ConnectBegin(p)
    \/ ProbeOk(p)
    \/ ProbeFail(p)
    \/ SleepDone(p)
    \/ Disconnect(p)
    \/ DisconnectFinish(p)
    \/ HealthBegin(p)
    \/ HealthProbeResult(p)
    \/ StreamBegin(p)
    \/ PostResult(p)
    \/ ErrBody(p)
    \/ ReadChunk(p)
    \/ ProcessLine(p)

Next == Step("p1")

Spec == Init /\ [][Next]_vars

(***************************************************************************)
(* Properties.                                                             *)
(***************************************************************************)
Last(q) == q[Len(q)]
IsToken(e) == e.type = "token"
IsTerminal(e) == e.type \in {"done", "error"}

RECURSIVE Contents(_)
Contents(evs) ==
    IF evs = << >> THEN << >> ELSE <<Head(evs).content>> \o Contents(Tail(evs))

RECURSIVE Concat(_)
Concat(texts) == IF texts = << >> THEN << >> ELSE Head(texts) \o Concat(Tail(texts))

RECURSIVE IsSubseq(_, _)
IsSubseq(a, b) ==
    IF a = << >> THEN TRUE
    ELSE IF b = << >> THEN FALSE
    ELSE IF Head(a) = Head(b) THEN IsSubseq(Tail(a), Tail(b))
    ELSE IsSubseq(a, Tail(b))

RECURSIVE UpToDone(_)
UpToDone(signals) ==
    IF signals = << >> \/ Head(signals) = DoneMark THEN << >>
    ELSE <<Head(signals)>> \o UpToDone(Tail(signals))

NotDoneMark(x) == x # DoneMark

\* The contents of the token events caller p has been handed.
EmittedTokens(p) == Contents(SelectSeq(events[p], IsToken))
\* The texts of the text-carrying lines read so far, in arrival order.
ArrivedTokens(p) == SelectSeq(arrived[p], NotDoneMark)
\* Those of them that arrived before the first line signalling the end.
ExpectedTokens(p) == UpToDone(arrived[p])

Streams(p) == op[p] \in {"stream", "sync"}
StreamOver(p) == Streams(p) /\ pc[p] = "done"
\* The connect() that caller p ran, directly or inside a streaming call,
\* ended in ConnectionError.
ConnectRaised(p) ==
    /\ pc[p] = "done"
    /\ \/ op[p] = "connect" /\ outcome[p] = "raised"
       \/ Streams(p) /\ fault[p][1] = "connect"

\* C1: the events of a streaming call are token events followed by at most
\* one terminal event; once the call is over there is exactly one terminal
\* event and it is the last; and the token events carry texts of lines that
\* arrived, in the order of arrival.
C1_OneTerminalEventLast ==
    \A p \in Procs :
        Streams(p) =>
            /\ \A i \in 1..(Len(events[p]) - 1) : IsToken(events[p][i])
            /\ StreamOver(p) /\ outcome[p] = "returned" =>
                   events[p] # << >> /\ IsTerminal(Last(events[p]))
            /\ pc[p] # "done" => \A i \in 1..Len(events[p]) : IsToken(events[p][i])
            /\ IsSubseq(EmittedTokens(p), ArrivedTokens(p))

C1_Witness ==
    \E p \in Procs :
        /\ op[p] = "stream" /\ pc[p] = "done"
        /\ nread[p] = 2
        /\ events[p] = <<TokenEvent(TokB), TokenEvent(TokA), DoneEvent>>

\* C2 (as stated): a connect() that starts with connection_retries = 0 and
\* fails every probe has slept 2, 4 and 8 seconds when it raises.
C2_SleepsTwoFourEight ==
    \A p \in Procs :
        ConnectRaised(p) /\ startRetries[p] = 0 => sleeps[p] = <<2, 4, 8>>

\* C2 (amended): such a connect() has slept 2 and then 4 seconds, after
\* failed attempts 1 and 2, and raises after its third failed probe without
\* sleeping again.
C2_SleepsTwoFour ==
    \A p \in Procs :
        ConnectRaised(p) /\ startRetries[p] = 0 =>
            sleeps[p] = <<2, 4>> /\ probes[p] = 3

C2_Witness ==
    \E p \in Procs :
        /\ op[p] = "connect" /\ pc[p] = "done" /\ outcome[p] = "raised"
        /\ startRetries[p] = 0 /\ probes[p] = 3 /\ Len(sleeps[p]) = 2

\* C3: a connect() that raises ConnectionError has itself made max_retries
\* failed probes, whatever calls came before it.
C3_RaisesOnlyAfterMaxRetriesProbes ==
    \A p \in Procs : ConnectRaised(p) => probes[p] = max_retries

\* C4: a malformed 'data: ' line costs only itself: whenever the stream
\* waits for the next chunk, no end signal has been read and every
\* text-carrying line read so far has yielded its token; and a stream that
\* ends in done has yielded the token of every text-carrying line read
\* before the end signal.
C4_MalformedLineSkipsOnlyItself ==
    \A p \in Procs :
        /\ Streams(p) /\ pc[p] = "reading" =>
               /\ DoneMark \notin Range(arrived[p])
               /\ EmittedTokens(p) = ArrivedTokens(p)
        /\ StreamOver(p) /\ events[p] # << >> /\ Last(events[p]).type = "done" =>
               EmittedTokens(p) = ExpectedTokens(p)

\* C5: when reading the body fails, the stream ends with one error event
\* carrying the failure's description, and every text-carrying line read
\* before the failure has yielded its token.
C5_NoTokenLostBeforeIOError ==
    \A p \in Procs :
        Streams(p) /\ fault[p][1] = "read" =>
            /\ StreamOver(p)
            /\ events[p] # << >>
            /\ Last(events[p]) = TransferErrorEvent(fault[p][2])
            /\ EmittedTokens(p) = ExpectedTokens(p)

\* C6: no exception leaves generate_code_streaming: the call always ends by
\* returning, and a call the backend failed (connect retries exhausted, no
\* session, non-200 answer, failed or timed out POST or read) is over and
\* has yielded exactly one terminal event, of type error, as its last event.
C6_NoExceptionEscapesStream ==
    \A p \in Procs :
        op[p] = "stream" =>
            /\ outcome[p] # "raised"
            /\ fault[p] # NoFault /\ pc[p] # "err_body" =>
                   /\ pc[p] = "done" /\ outcome[p] = "returned"
                   /\ events[p] # << >>
                   /\ Last(events[p]).type = "error"
                   /\ \A i \in 1..(Len(events[p]) - 1) : IsToken(events[p][i])

C6_Witness ==
    \E p \in Procs :
        /\ op[p] = "stream" /\ pc[p] = "done" /\ outcome[p] = "returned"
        /\ fault[p] = Fault("read", "TimeoutError")
        /\ Len(events[p]) = 2
        /\ Last(events[p]).type = "error"

\* C7 (as stated): after a non-200 answer the stream yields exactly one
\* event, an error event whose content carries the status and the body.
C7_ErrorEventCarriesStatusAndBody ==
    \A p \in Procs :
        StreamOver(p) /\ status[p] \in ErrorStatuses =>
            /\ Len(events[p]) = 1
            /\ events[p][1].type = "error"
            /\ status[p] \in Range(events[p][1].content)
            /\ \E error_text \in ErrorBodies : error_text \in Range(events[p][1].content)

\* C7 (amended): after a non-200 answer the stream yields exactly one event,
\* a terminal error event, and no token event; when the body could be read
\* the event's content carries the status and not the body, and when reading
\* the body failed it carries that failure's description.
C7_ErrorEventCarriesStatus ==
    \A p \in Procs :
        StreamOver(p) /\ status[p] \in ErrorStatuses =>
            /\ Len(events[p]) = 1
            /\ events[p][1].type = "error" /\ events[p][1].is_complete
            /\ fault[p][1] = "status" =>
                   /\ status[p] \in Range(events[p][1].content)
                   /\ \A error_text \in ErrorBodies :
                          error_text \notin Range(events[p][1].content)
            /\ fault[p][1] = "body" => fault[p][2] \in Range(events[p][1].content)

C7_Witness ==
    \E p \in Procs :
        /\ op[p] = "stream" /\ pc[p] = "done"
        /\ status[p] = "500" /\ fault[p] = Fault("status", "500")
        /\ Len(events[p]) = 1 /\ events[p][1].type = "error"

\* C8: a generate_code_sync whose stream ended in done returns success with
\* the code and the explanation that parse_response gives for the
\* concatenation of the token contents, in order.
C8_SyncSuccessOnDone ==
    \A p \in Procs :
        /\ op[p] = "sync" /\ pc[p] = "done"
        /\ events[p] # << >> /\ Last(events[p]).type = "done"
        => /\ response[p].success
           /\ response[p].generated_code = parse_response(Concat(EmittedTokens(p))).code
           /\ response[p].explanation =
                  parse_response(Concat(EmittedTokens(p))).explanation

\* C9: generate_code_sync never raises: it always ends by returning a
\* response; after an error event the response is a failure with empty code
\* and the event's content as message, whatever was accumulated; and a
\* success is returned only for a stream that ended in done and parsed.
C9_SyncNeverRaises ==
    \A p \in Procs :
        op[p] = "sync" =>
            /\ outcome[p] # "raised"
            /\ pc[p] = "done" =>
                   /\ outcome[p] = "returned"
                   /\ response[p].model_used = "vllm"
                   /\ events[p] # << >>
                   /\ Last(events[p]).type = "error" =>
                          response[p] = CodeGenerationResponse(
                              FALSE, << >>, << >>, Last(events[p]).content, 0)
                   /\ response[p].success =>
                          /\ Last(events[p]).type = "done"
                          /\ ~IsBlank(accumulated_content[p])
                   /\ ~response[p].success => response[p].generated_code = << >>

C9_Witness ==
    \E p \in Procs :
        /\ op[p] = "sync" /\ pc[p] = "done" /\ outcome[p] = "returned"
        /\ Len(events[p]) = 2 /\ IsToken(events[p][1])
        /\ Last(events[p]).type = "error"
        /\ accumulated_content[p] = TokA
        /\ ~response[p].success /\ response[p].generated_code = << >>

\* C10: the body posted to /generate/stream carries the temperature, token
\* budget, nucleus threshold and composed prompt that _prepare_vllm_payload
\* computes for the request, the preferences and some complexity tier.
C10_PostedPayloadIsPrepared ==
    \A p \in Procs :
        Streams(p) /\ pc[p] = "posting" =>
            \E complexity \in ComplexityTiers, hookAvailable \in BOOLEAN :
                LET payload == _prepare_vllm_payload(
                                   request[p].request, complexity, request[p].user_id,
                                   request[p].user_preferences, hookAvailable)
                IN  /\ posted[p].temperature = payload.temperature
                    /\ posted[p].max_tokens = payload.max_tokens
                    /\ posted[p].top_p = payload.top_p
                    /\ posted[p].prompt = payload.prompt

\* C11: the outcome of every request is recorded: once a streaming or sync
\* request has reached its terminal event, total_requests counts it, it is
\* counted as a success (after done) or as a failure (after error), and
\* total_requests = successful_requests + failed_requests.
C11_MetricsRecordOutcome ==
    /\ metrics.total_requests = metrics.successful_requests + metrics.failed_requests
    /\ \A p \in Procs :
           StreamOver(p) /\ events[p] # << >> =>
               /\ metrics.total_requests >= 1
               /\ Last(events[p]).type = "done" => metrics.successful_requests >= 1
               /\ Last(events[p]).type = "error" => metrics.failed_requests >= 1

(***************************************************************************)
(* ResponseParser called on its own.                                       *)
(***************************************************************************)
\* The atoms of the texts explored.
ParseAtoms == {"FENCE", "python", "\n", " ", "print(1)", "x = 1", "Explanation:",
               "does", "prints one to the console"}

\* 'Explanation: does X', a newline, and a python-tagged fence around print(1)
TaggedSample ==
    <<"Explanation:", " ", "does", " ", "X", "\n",
      "FENCE", "python", "\n", "print(1)", "\n", "FENCE">>

\* The same with an untagged fence.
UntaggedSample ==
    <<"Explanation:", " ", "does", " ", "X", "\n",
      "FENCE", "\n", "print(1)", "\n", "FENCE">>

Texts == SeqsUpTo(ParseAtoms, MaxText) \cup {TaggedSample, UntaggedSample}

ParserInit ==
    /\ ServiceInit
    /\ parseArg \in Texts
    /\ parseResult = NotCalled
    /\ ValidatorIdle
    /\ PayloadIdle
    /\ ReadIdle
    /\ scenario = Unrestricted

\* response_parser.parse_response(parseArg)
Parse ==
    /\ parseResult = NotCalled
    /\ parseResult' = <<parse_response(parseArg)>>
    /\ UNCHANGED <<service, frame, connecting, streaming, syncing, history, environment,
                   parseArg, validatorVars, payloadVars, readVars>>

ParserNext == Parse

ParserSpec == ParserInit /\ [][ParserNext]_vars

Parsed == parseResult # NotCalled

FenceCount(text) == Cardinality({i \in 1..Len(text) : text[i] = "FENCE"})

\* The only fenced region of a text with two fences: whether it is tagged
\* python, its content and the text around it.
IsTagged(text) ==
    NextFence(text, 1) < Len(text) /\ text[NextFence(text, 1) + 1] = "python"

RegionContent(text) ==
    Trim(SubSeq(text, NextFence(text, 1) + (IF IsTagged(text) THEN 2 ELSE 1),
                NextFence(text, NextFence(text, 1) + 1) - 1))

AroundRegion(text) ==
    SubSeq(text, 1, NextFence(text, 1) - 1)
    \o SubSeq(text, NextFence(text, NextFence(text, 1) + 1) + 1, Len(text))

\* A stripped line that is not empty and holds no code.
IsProseLine(line) ==
    line # << >> /\ \A i \in 1..Len(line) : line[i] \notin CodeLikeAtoms

RemainingLines(text) ==
    JoinLines(SelectSeq(TrimEach(SplitLines(AroundRegion(text))), IsProseLine))

\* C12: for a text with exactly one fenced region (tagged python or not)
\* whose content is not blank, parse_response returns the region's trimmed
\* content as code, counts one code block, and returns the remaining
\* non-empty lines without code as explanation.
C12_OneFencedRegion ==
    Parsed /\ FenceCount(parseArg) = 2 /\ RegionContent(parseArg) # << >> =>
        /\ parseResult[1].code = RegionContent(parseArg)
        /\ parseResult[1].metadata.code_blocks_found = 1
        /\ parseResult[1].explanation = RemainingLines(parseArg)

\* ---------------------------------------------------------------------------
\* CodeQualityValidator
\* ---------------------------------------------------------------------------

\* A code string is a sequence of characters; "print" stands for the five
\* letters of the word, which no pattern of the validator tells apart.
Openers == {"(", "[", "{"}

Closers == {")", "]", "}"}

Quotes == {"'", "\""}

\* A check that takes every closer for a closing parenthesis.
brackets_Parenthesis(char) == ")"

brackets(char) ==
    CASE char = "(" -> ")"
      [] char = "[" -> "]"
      [] char = "{" -> "}"

\* One entry of an issue list.  The program writes issues as sentences; the
\* model keeps the category of the check that wrote it, the sentence, the
\* characters and the number the sentence is formatted with.
Issue(category, description, detail, count) ==
    [category |-> category, description |-> description,
     detail |-> detail, count |-> count]

ExtraCloser == Issue("bracket", "more closing than opening brackets", << >>, 0)

Mismatch(last_open, char) ==
    Issue("bracket", "bracket type mismatch", <<last_open, char>>, 0)

Unclosed(count) == Issue("bracket", "unclosed brackets", << >>, count)

OddSingleQuotes == Issue("quote", "odd number of single quotes", << >>, 0)

OddDoubleQuotes == Issue("quote", "odd number of double quotes", << >>, 0)

SyntaxIssue(description) == Issue("syntax", description, << >>, 0)

AstIssue == Issue("ast", "syntax error", << >>, 0)

\* The number of occurrences of a character: str.count.
RECURSIVE Count(_, _)
Count(code, char) ==
    IF code = << >> THEN 0
    ELSE (IF Head(code) = char THEN 1 ELSE 0) + Count(Tail(code), char)

\* The for loop of _check_bracket_balance from the characters still to read:
\* the stack and the issues when the loop ends, at the end of the code or at
\* the break on a closer met with an empty stack.
RECURSIVE BalanceScan(_, _, _)
BalanceScan(code, stack, issues) ==
    IF code = << >> THEN [stack |-> stack, issues |-> issues]
    ELSE IF Head(code) \in Openers
        THEN BalanceScan(Tail(code), Append(stack, Head(code)), issues)
    ELSE IF Head(code) \in Closers
        THEN IF stack = << >>
                 THEN [stack |-> stack, issues |-> Append(issues, ExtraCloser)]
                 ELSE BalanceScan(Tail(code), SubSeq(stack, 1, Len(stack) - 1),
                          IF brackets(stack[Len(stack)]) # Head(code)
                              THEN Append(issues,
                                       Mismatch(stack[Len(stack)], Head(code)))
                              ELSE issues)
    ELSE BalanceScan(Tail(code), stack, issues)

AfterScan(stack, issues) ==
    IF stack # << >> THEN Append(issues, Unclosed(Len(stack))) ELSE issues

ScanResult(scan) == AfterScan(scan.stack, scan.issues)

_check_bracket_balance(code) == ScanResult(BalanceScan(code, << >>, << >>))

_check_quote_balance(code) ==
    (IF Count(code, "'") % 2 # 0 THEN <<OddSingleQuotes>> ELSE << >>)
        \o (IF Count(code, "\"") % 2 # 0 THEN <<OddDoubleQuotes>> ELSE << >>)

\* Every character of code[from..to] is outside the set: a run of [^...]*.
NoneIn(code, from, to, chars) == \A i \in from..to : code[i] \notin chars

\* re.search of print\(["'][^"']*["']["']
PrintQuotePattern(code) ==
    \E i \in 1..Len(code) : \E j \in (i + 3)..(Len(code) - 1) :
        /\ code[i] = "print"
        /\ code[i + 1] = "("
        /\ code[i + 2] \in Quotes
        /\ NoneIn(code, i + 3, j - 1, Quotes)
        /\ code[j] \in Quotes
        /\ code[j + 1] \in Quotes

\* re.search of ["'][^"']*\([^)]*["']
QuoteInCallPattern(code) ==
    \E i \in 1..Len(code) : \E j \in (i + 1)..Len(code) :
        \E k \in (j + 1)..Len(code) :
            /\ code[i] \in Quotes
            /\ NoneIn(code, i + 1, j - 1, Quotes)
            /\ code[j] = "("
            /\ NoneIn(code, j + 1, k - 1, {")"})
            /\ code[k] \in Quotes

\* re.search of \([^)]*\([^)]*["'][^"']*$
NestedCallPattern(code) ==
    \E i \in 1..Len(code) : \E j \in (i + 1)..Len(code) :
        \E k \in (j + 1)..Len(code) :
            /\ code[i] = "("
            /\ NoneIn(code, i + 1, j - 1, {")"})
            /\ code[j] = "("
            /\ NoneIn(code, j + 1, k - 1, {")"})
            /\ code[k] \in Quotes
            /\ NoneIn(code, k + 1, Len(code), Quotes)

\* re.search of ^[^=]*=[^=]*\([^)]*$
AssignCallPattern(code) ==
    \E i \in 1..Len(code) : \E j \in (i + 1)..Len(code) :
        /\ NoneIn(code, 1, i - 1, {"="})
        /\ code[i] = "="
        /\ NoneIn(code, i + 1, j - 1, {"="})
        /\ code[j] = "("
        /\ NoneIn(code, j + 1, Len(code), {")"})

_check_basic_syntax(code) ==
    (IF PrintQuotePattern(code)
         THEN <<SyntaxIssue("wrong quote pattern in print()")>> ELSE << >>)
    \o (IF QuoteInCallPattern(code)
            THEN <<SyntaxIssue("wrong quote inside a function call")>>
            ELSE << >>)
    \o (IF NestedCallPattern(code)
            THEN <<SyntaxIssue("unfinished nested function call")>>
            ELSE << >>)
    \o (IF AssignCallPattern(code)
            THEN <<SyntaxIssue("unfinished function assignment")>>
            ELSE << >>)

\* ast.parse is the parser of the Python runtime: whether it accepts the code
\* is an input of the call, and _check_ast_validity turns a refusal into one
\* issue.
_check_ast_validity(accepted) == IF accepted THEN << >> ELSE <<AstIssue>>

\* A confidence is a double.  Its value is tenths / 10 - below / (5 * 2^55):
\* the decimal the program means, and how far below it the double lies.
Confidence(tenths, below) == [tenths |-> tenths, below |-> below]

One == Confidence(10, 0)

Zero == Confidence(0, 0)

\* confidence - 0.3 and confidence - 0.2 in IEEE-754 double arithmetic, for
\* the confidences validate_code_chunk can hold: <<tenths, below, penalty in
\* tenths, tenths of the difference, below of the difference>>.
FloatSubRows ==
    { <<10, 0, 3, 7, 8>>,    <<10, 0, 2, 8, 0 - 8>>,
      <<7, 8, 2, 5, 10>>,    <<7, 8, 3, 4, 6>>,
      <<8, 0 - 8, 2, 6, 0 - 16>>, <<8, 0 - 8, 3, 5, 0>>,
      <<5, 10, 2, 3, 12>>,   <<5, 10, 3, 2, 8>>,
      <<6, 0 - 16, 3, 3, 0 - 18>>, <<3, 12, 3, 0, 10>> }

RowResult(row) == Confidence(row[4], row[5])

FloatSub(confidence, penalty) ==
    RowResult(CHOOSE row \in FloatSubRows :
                  /\ row[1] = confidence.tenths
                  /\ row[2] = confidence.below
                  /\ row[3] = penalty)

IsNegative(confidence) ==
    \/ confidence.tenths < 0
    \/ confidence.tenths = 0 /\ confidence.below > 0

\* A validator that returns the confidence as computed.
FloatMax0_Unclamped(confidence) == confidence

FloatMax0(confidence) == IF IsNegative(confidence) THEN Zero ELSE confidence

Penalise(confidence, found, penalty) ==
    IF found # << >> THEN FloatSub(confidence, penalty) ELSE confidence

ValidationResult(code, issues, confidence) ==
    [valid |-> Len(issues) = 0,
     issues |-> issues,
     confidence |-> FloatMax0(confidence),
     code_length |-> Len(code),
     line_count |-> Count(code, "\n") + 1]

ValidateChecks(code, syntax_issues, balance_issues, quote_issues, ast_issues) ==
    ValidationResult(code,
        syntax_issues \o balance_issues \o quote_issues \o ast_issues,
        Penalise(Penalise(Penalise(Penalise(One, syntax_issues, 3),
                                   balance_issues, 2),
                          quote_issues, 2),
                 ast_issues, 3))

\* The result for a blank code has no code_length and no line_count.
BlankResult == [valid |-> TRUE, issues |-> << >>, confidence |-> One]

validate_code_chunk(code, accepted) ==
    IF IsBlank(code)
        THEN BlankResult
        ELSE ValidateChecks(code, _check_basic_syntax(code),
                 _check_bracket_balance(code), _check_quote_balance(code),
                 _check_ast_validity(accepted))

Repeat(char, n) == [i \in 1..n |-> char]

\* A variant of the loop body that appends a quote without counting.
FixIssue_AlwaysAppends(fixed_code, issue) ==
    IF issue.description = "unclosed brackets"
        THEN fixed_code \o Repeat(")", Max(0, Count(fixed_code, "(")
                                              - Count(fixed_code, ")")))
    ELSE IF issue.description = "odd number of single quotes"
        THEN Append(fixed_code, "'")
    ELSE IF issue.description = "odd number of double quotes"
        THEN Append(fixed_code, "\"")
    ELSE fixed_code

\* One turn of the loop of suggest_fix.
FixIssue(fixed_code, issue) ==
    IF issue.description = "unclosed brackets"
        THEN IF Count(fixed_code, "(") > Count(fixed_code, ")")
                 THEN fixed_code \o Repeat(")", Count(fixed_code, "(")
                                                  - Count(fixed_code, ")"))
                 ELSE fixed_code
    ELSE IF issue.description = "odd number of single quotes"
        THEN IF Count(fixed_code, "'") % 2 # 0
                 THEN Append(fixed_code, "'") ELSE fixed_code
    ELSE IF issue.description = "odd number of double quotes"
        THEN IF Count(fixed_code, "\"") % 2 # 0
                 THEN Append(fixed_code, "\"") ELSE fixed_code
    ELSE fixed_code

RECURSIVE suggest_fix(_, _)
suggest_fix(code, issues) ==
    IF issues = << >> THEN code
    ELSE suggest_fix(FixIssue(code, Head(issues)), Tail(issues))

\* ---------------------------------------------------------------------------
\* CodeQualityValidator called on its own
\* ---------------------------------------------------------------------------

CodeChars == {"(", ")", "[", "]", "{", "}", "'", "\"", "=", " "}

PrintSample == <<"print", "(", "'", "'", "'">>

Codes == SeqsUpTo(CodeChars, MaxCode) \cup {PrintSample}

ValidatorCalls ==
    {ValidatorCall("_check_bracket_balance", code, << >>, << >>) : code \in Codes}
    \cup {ValidatorCall("validate_code_chunk", code, << >>,
                        _check_ast_validity(accepted)) :
              code \in Codes, accepted \in BOOLEAN}
    \cup {ValidatorCall("suggest_fix", code,
                        validate_code_chunk(code, accepted).issues,
                        _check_ast_validity(accepted)) :
              code \in Codes, accepted \in BOOLEAN}

ValidatorInit ==
    /\ ServiceInit
    /\ ParserIdle
    /\ validatorCall \in ValidatorCalls
    /\ validatorResult = NotCalled
    /\ PayloadIdle
    /\ ReadIdle
    /\ scenario = Unrestricted

CheckBracketBalance ==
    /\ validatorResult = NotCalled
    /\ validatorCall.method = "_check_bracket_balance"
    /\ validatorResult' = <<_check_bracket_balance(validatorCall.code)>>
    /\ UNCHANGED <<service, frame, connecting, streaming, syncing, history, environment,
                   parserVars, validatorCall, payloadVars, readVars>>

ValidateCodeChunk ==
    /\ validatorResult = NotCalled
    /\ validatorCall.method = "validate_code_chunk"
    /\ validatorResult' =
           <<validate_code_chunk(validatorCall.code,
                                 validatorCall.ast_issues = << >>)>>
    /\ UNCHANGED <<service, frame, connecting, streaming, syncing, history, environment,
                   parserVars, validatorCall, payloadVars, readVars>>

SuggestFix ==
    /\ validatorResult = NotCalled
    /\ validatorCall.method = "suggest_fix"
    /\ validatorResult' =
           <<suggest_fix(validatorCall.code, validatorCall.issues)>>
    /\ UNCHANGED <<service, frame, connecting, streaming, syncing, history, environment,
                   parserVars, validatorCall, payloadVars, readVars>>

ValidatorNext == CheckBracketBalance \/ ValidateCodeChunk \/ SuggestFix

ValidatorSpec == ValidatorInit /\ [][ValidatorNext]_vars

Returned(method) ==
    validatorCall.method = method /\ validatorResult # NotCalled

\* The bracket characters of a code, in order.
BracketsOf(code) == SelectSeq(code, LAMBDA c : c \in Openers \cup Closers)

MatchingPairs == {<<"(", ")">>, <<"[", "]">>, <<"{", "}">>}

\* Well-bracketed strings by their grammar: the empty string, or an opener,
\* a well-bracketed string, the closer of the opener's type and a
\* well-bracketed string.
RECURSIVE WellBracketed(_)
WellBracketed(s) ==
    \/ s = << >>
    \/ /\ s # << >>
       /\ \E k \in 2..Len(s) :
              /\ <<s[1], s[k]>> \in MatchingPairs
              /\ WellBracketed(SubSeq(s, 2, k - 1))
              /\ WellBracketed(SubSeq(s, k + 1, Len(s)))

\* The code lacks exactly n closers: some n closers appended to it make it
\* well-bracketed.
Lacks(code, n) ==
    \E closers \in [1..n -> Closers] : WellBracketed(BracketsOf(code) \o closers)

OnlyUnmatchedParentheses(code) ==
    \E n \in 1..Len(code) :
        WellBracketed(BracketsOf(code) \o Repeat(")", n))

UnclosedCount(issues) ==
    IF \E i \in 1..Len(issues) : issues[i].description = "unclosed brackets"
        THEN (CHOOSE issue \in Range(issues) :
                  issue.description = "unclosed brackets").count
        ELSE 0

\* C14: suggest_fix applied to a code and its validation issues leaves at
\* least as many syntax-pattern issues and quote issues on the repaired code
\* as the code had, and when the only bracket issue is unmatched opening
\* parentheses the bracket check reports no unclosed bracket on the repaired
\* code.
C14_RepairKeepsOtherIssues ==
    Returned("suggest_fix") =>
        /\ Len(_check_basic_syntax(validatorResult[1]))
               >= Len(_check_basic_syntax(validatorCall.code))
        /\ Len(_check_quote_balance(validatorResult[1]))
               >= Len(_check_quote_balance(validatorCall.code))
        /\ OnlyUnmatchedParentheses(validatorCall.code) =>
               UnclosedCount(_check_bracket_balance(validatorResult[1])) = 0

\* 0.0 <= confidence <= 1.0
InUnitInterval(confidence) ==
    /\ confidence.tenths > 0 \/ (confidence.tenths = 0 /\ confidence.below <= 0)
    /\ confidence.tenths < 10 \/ (confidence.tenths = 10 /\ confidence.below >= 0)

AllFourFail(code, ast_issues) ==
    /\ ~IsBlank(code)
    /\ _check_basic_syntax(code) # << >>
    /\ _check_bracket_balance(code) # << >>
    /\ _check_quote_balance(code) # << >>
    /\ ast_issues # << >>

\* C15: in every result of validate_code_chunk valid is true exactly when
\* issues is empty and confidence lies in [0, 1]; when all four checks fail
\* the confidence is exactly 0; a blank code is valid with no issue and
\* confidence exactly 1.
C15_ValidationResult ==
    Returned("validate_code_chunk") =>
        /\ validatorResult[1].valid <=> validatorResult[1].issues = << >>
        /\ InUnitInterval(validatorResult[1].confidence)
        /\ AllFourFail(validatorCall.code, validatorCall.ast_issues) =>
               validatorResult[1].confidence = Zero
        /\ IsBlank(validatorCall.code) =>
               /\ validatorResult[1].valid
               /\ validatorResult[1].issues = << >>
               /\ validatorResult[1].confidence = One

\* A code on which all four checks fail has been validated.
C15_Witness ==
    /\ Returned("validate_code_chunk")
    /\ AllFourFail(validatorCall.code, validatorCall.ast_issues)
    /\ Len(validatorResult[1].issues) = 4
    /\ ~validatorResult[1].valid

\* C16: every result of parse_response has explanation, code and a metadata
\* record with code_blocks_found >= 0, has_explanation equal to (explanation
\* is non-empty) and parsing_confidence in [0, 1]; a text in which nothing is
\* found gives empty fields.
C16_CompleteParsedResponse ==
    Parsed =>
        /\ parseResult[1].has_metadata
        /\ parseResult[1].metadata.code_blocks_found >= 0
        /\ parseResult[1].metadata.has_explanation
               <=> parseResult[1].explanation # << >>
        /\ parseResult[1].metadata.parsing_confidence \in 0..10
        /\ IsBlank(parseArg) =>
               parseResult[1].explanation = << >> /\ parseResult[1].code = << >>

\* C17: when a connect() call has returned, is_connected is true and
\* connection_retries is 0; when it has raised, is_connected is false.
C17_ConnectOutcome ==
    \A p \in Procs :
        pc[p] = "done" /\ op[p] = "connect" =>
            /\ outcome[p] = "returned" => is_connected /\ connection_retries = 0
            /\ outcome[p] = "raised" => ~is_connected

\* A connect() call has returned after two failed probes of its own.
C17_Witness ==
    \E p \in Procs :
        /\ pc[p] = "done" /\ op[p] = "connect"
        /\ outcome[p] = "returned"
        /\ probes[p] = 2

\* A connect() call entered with failures of earlier calls on the counter has
\* returned.
C17_WitnessEarlierFailures ==
    \E p \in Procs :
        /\ pc[p] = "done" /\ op[p] = "connect"
        /\ outcome[p] = "returned"
        /\ startRetries[p] >= max_retries

\* Caller p is in a disconnect() call that follows a disconnect() call.
SecondDisconnect(p) == op[p] = "disconnect" /\ previous[p] = "disconnect"

\* C18: a disconnect() call returns with the session absent and is_connected
\* false and changes no other field of the service; a disconnect() call that
\* follows another one leaves the service as it found it, closes nothing and
\* returns.
C18_DisconnectIdempotent ==
    [][\A p \in Procs :
           op[p] = "disconnect" /\ pc[p] \in {"start", "closing"} =>
               /\ connection_retries' = connection_retries
               /\ metrics' = metrics
               /\ pc'[p] = "done" =>
                      /\ session' = "None"
                      /\ ~is_connected'
                      /\ outcome'[p] = "returned"
               /\ SecondDisconnect(p) =>
                      /\ session = "None" /\ ~is_connected
                      /\ service' = service
                      /\ pc'[p] = "done"]_vars

\* A second disconnect() in a row has returned, on a service whose retry
\* counter is not zero.
C18_Witness ==
    \E p \in Procs :
        /\ SecondDisconnect(p)
        /\ pc[p] = "done" /\ outcome[p] = "returned"
        /\ connection_retries > 0

HealthOver(p) == op[p] = "health_check" /\ pc[p] = "done"

\* C19 as stated: health_check returns a boolean and never raises, and it
\* returns true exactly when the /health probe answered 200.
C19_TrueExactlyOn200 ==
    \A p \in Procs :
        HealthOver(p) =>
            /\ outcome[p] = "returned"
            /\ retval[p] \in {"True", "False"}
            /\ retval[p] = "True" <=> status[p] = "200"

\* C19: health_check returns a boolean and never raises; it returns true
\* exactly when the /health probe answered 200 and the body of the answer
\* was read; it returns false on a connector failure, a timeout, a non-200
\* status, a failure to read the body, and when the connect() it triggers
\* exhausts its retries.
C19_HealthCheckBoolean ==
    \A p \in Procs :
        HealthOver(p) =>
            /\ outcome[p] = "returned"
            /\ retval[p] \in {"True", "False"}
            /\ retval[p] = "True" <=> status[p] = "200" /\ fault[p] = NoFault
            /\ fault[p][1] \in {"get", "status", "body", "connect"} =>
                   retval[p] = "False"

\* A health_check that found no session has returned after the connect() it
\* triggered exhausted its retries.
C19_Witness ==
    \E p \in Procs :
        /\ HealthOver(p)
        /\ fault[p][1] = "connect"
        /\ probes[p] = max_retries
        /\ retval[p] = "False"

\* The lines _process_stream_line can be handed: the stripped lines.
StrippedLines == {Strip(l) : l \in AllLines}

HasDone(evs) == \E i \in 1..Len(evs) : evs[i].type = "done"

\* C20: _process_stream_line yields nothing for an empty line, a bare
\* keep-alive marker and a line without the 'data: ' prefix; a done event for
\* 'data: [DONE]' and for an object of type done, with or without text; a
\* token event with the text for an object with a non-empty text; nothing
\* for an object with neither.  After a done event the streaming call is
\* over: the rest of the window is dropped and no event follows.
C20_LineClassification ==
    /\ \A l \in StrippedLines :
           /\ ~l.prefix => _process_stream_line(l) = Returns(NoEvent)
           /\ l.prefix /\ l.kind = "sentinel" =>
                  _process_stream_line(l) = Returns(DoneEvent)
           /\ l.prefix /\ l.kind = "obj" /\ l.type = "done" =>
                  _process_stream_line(l) = Returns(DoneEvent)
           /\ l.prefix /\ l.kind = "obj" /\ l.type # "done" /\ l.text # << >> =>
                  _process_stream_line(l) = Returns(TokenEvent(l.text))
           /\ l.prefix /\ l.kind = "obj" /\ l.type # "done" /\ l.text = << >> =>
                  _process_stream_line(l) = Returns(NoEvent)
    /\ _process_stream_line(Strip(Line(TRUE, "empty", "none", << >>)))
           = Returns(NoEvent)
    /\ \A p \in Procs :
           Streams(p) /\ HasDone(events[p]) =>
               /\ Last(events[p]).type = "done"
               /\ ~HasDone(SubSeq(events[p], 1, Len(events[p]) - 1))
               /\ pc[p] = "done"
               /\ window[p] = << >>

\* A streaming call is over whose done event came from a line that was
\* followed, in the windows read, by a line carrying text: that text was not
\* emitted.
C20_Witness ==
    \E p \in Procs :
        /\ StreamOver(p)
        /\ HasDone(events[p])
        /\ Len(ArrivedTokens(p)) > Len(ExpectedTokens(p))
        /\ EmittedTokens(p) = ExpectedTokens(p)
        /\ EmittedTokens(p) # << >>

\* ---------------------------------------------------------------------------
\* _prepare_vllm_payload called on its own
\* ---------------------------------------------------------------------------

PayloadCalls ==
    [request : Requests, complexity : ComplexityTiers, user_id : UserIds,
     user_preferences : PrefsDicts, hookAvailable : BOOLEAN]

PayloadInit ==
    /\ ServiceInit
    /\ ParserIdle
    /\ ValidatorIdle
    /\ ReadIdle
    /\ payloadCall \in {<<call>> : call \in PayloadCalls}
    /\ payloadResult = NotCalled
    /\ scenario = Unrestricted

PreparePayload ==
    /\ payloadResult = NotCalled
    /\ payloadResult' =
           <<_prepare_vllm_payload(payloadCall[1].request, payloadCall[1].complexity,
                                   payloadCall[1].user_id,
                                   payloadCall[1].user_preferences,
                                   payloadCall[1].hookAvailable)>>
    /\ UNCHANGED <<service, frame, connecting, streaming, syncing, history, environment,
                   parserVars, validatorVars, payloadCall, readVars>>

PayloadNext == PreparePayload

PayloadSpec == PayloadInit /\ [][PayloadNext]_vars

Prepared == payloadResult # NotCalled

\* The payload of the same call in the simple tier, which has no overlay.
SimpleTier ==
    _prepare_vllm_payload(payloadCall[1].request, "simple", payloadCall[1].user_id,
                          payloadCall[1].user_preferences,
                          payloadCall[1].hookAvailable)

AtMost(x, ceiling) == IF x > ceiling THEN ceiling ELSE x

\* C21: the payload of a call without preferences in the simple tier has
\* temperature 0.3, 400 tokens and nucleus 0.8; the medium tier has the simple
\* tier's temperature x1.3 capped at 0.5, tokens x1.5 and nucleus x1.1 capped
\* at 0.9, the complex tier temperature x1.6 capped at 0.7, tokens x2.0 and
\* nucleus x1.2 capped at 0.95; and in every payload the temperature is in
\* [0.1, 0.7], the nucleus threshold in [0.7, 0.95] and the tokens in
\* [320, 1200].  Fractions are in ten-thousandths.
C21_LayeredScaling ==
    Prepared =>
        /\ payloadResult[1].temperature \in 1000..7000
        /\ payloadResult[1].top_p \in 7000..9500
        /\ payloadResult[1].max_tokens \in 320..1200
        /\ ~payloadCall[1].user_preferences.nonempty =>
               /\ SimpleTier.temperature = 3000
               /\ SimpleTier.max_tokens = 400
               /\ SimpleTier.top_p = 8000
        /\ payloadCall[1].complexity = "simple" =>
               /\ payloadResult[1].temperature = SimpleTier.temperature
               /\ payloadResult[1].max_tokens = SimpleTier.max_tokens
               /\ payloadResult[1].top_p = SimpleTier.top_p
        /\ payloadCall[1].complexity = "medium" =>
               /\ payloadResult[1].temperature
                      = AtMost((SimpleTier.temperature * 13) \div 10, 5000)
               /\ payloadResult[1].max_tokens = (SimpleTier.max_tokens * 15) \div 10
               /\ payloadResult[1].top_p = AtMost((SimpleTier.top_p * 11) \div 10, 9000)
        /\ payloadCall[1].complexity = "complex" =>
               /\ payloadResult[1].temperature
                      = AtMost((SimpleTier.temperature * 16) \div 10, 7000)
               /\ payloadResult[1].max_tokens = SimpleTier.max_tokens * 2
               /\ payloadResult[1].top_p = AtMost((SimpleTier.top_p * 12) \div 10, 9500)

\* The payload of a beginner's request in the complex tier has been prepared:
\* it has the largest token budget.
C21_Witness ==
    /\ Prepared
    /\ payloadCall[1].complexity = "complex"
    /\ payloadCall[1].user_preferences.nonempty
    /\ payloadCall[1].user_preferences.skill_level = "beginner"
    /\ payloadResult[1].max_tokens = 1200

\* The results validate_code_chunk can return for the given codes.
ValidationResults(codes) ==
    {validate_code_chunk(code, accepted) : code \in codes, accepted \in BOOLEAN}

\* confidence a <= confidence b, both doubles
ConfidenceAtMost(a, b) ==
    \/ a.tenths < b.tenths
    \/ a.tenths = b.tenths /\ a.below >= b.below

\* C22: a code whose issue list is longer than another code's has a
\* confidence that is not greater than the other's.
C22_ConfidenceMonotonic ==
    Returned("validate_code_chunk") =>
        \A other \in ValidationResults(Codes) :
            Len(validatorResult[1].issues) > Len(other.issues) =>
                ConfidenceAtMost(validatorResult[1].confidence, other.confidence)

(***************************************************************************)
(* Specification: two callers whose connect, disconnect and health_check   *)
(* calls interleave at their awaits.                                       *)
(***************************************************************************)
LifecycleOps == {"connect", "disconnect", "health_check"}

LifecycleInit ==
    /\ ServiceInit
    /\ FunctionsIdle
    /\ scenario = Scenario(LifecycleOps, "any")

LifecycleStep(p) ==
    \/ Call(p)
    \/ ConnectBegin(p)
    \/ ProbeOk(p)
    \/ ProbeFail(p)
    \/ SleepDone(p)
    \/ Disconnect(p)
    \/ DisconnectFinish(p)
    \/ HealthBegin(p)
    \/ HealthProbeResult(p)

LifecycleNext == \E p \in Procs : LifecycleStep(p)

LifecycleSpec == LifecycleInit /\ [][LifecycleNext]_vars

\* Both callers are in a connect() call that was entered with the retry
\* counter at zero.
BothInFreshConnect ==
    \A p \in Procs :
        /\ op[p] = "connect"
        /\ pc[p] \notin {"idle", "start"}
        /\ startRetries[p] = 0

\* C23: when two connect() calls that both started from a zero counter
\* overlap, neither raises ConnectionError before it has itself made
\* max_retries failed probes, and connection_retries stays at most max_retries.
C23_ConcurrentConnect ==
    BothInFreshConnect =>
        /\ connection_retries <= max_retries
        /\ \A p \in Procs : outcome[p] = "raised" => probes[p] >= max_retries

(***************************************************************************)
(* Specification: two callers whose generate_code_streaming calls          *)
(* interleave at their awaits, against a healthy backend.                  *)
(***************************************************************************)
StreamsInit ==
    /\ ServiceInit
    /\ FunctionsIdle
    /\ scenario = Scenario({"stream"}, "healthy")

StreamsStep(p) ==
    \/ Call(p)
    \/ StreamBegin(p)
    \/ ProbeOk(p)
    \/ PostResult(p)
    \/ ReadChunk(p)
    \/ ProcessLine(p)

StreamsNext == \E p \in Procs : StreamsStep(p)

StreamsSpec == StreamsInit /\ [][StreamsNext]_vars

TerminalEvents(p) == SelectSeq(events[p], IsTerminal)

\* Every token event of caller p carries the text of p's own response.
OwnTokensOnly(p) ==
    \A i \in 1..Len(events[p]) :
        IsToken(events[p][i]) => events[p][i].content = ResponseToken(p)

LeadByte == "0xC3"
ContinuationByte == "0xA9"
TwoByteChar == "U+00E9"
TextChars == {"a", TwoByteChar}

TokenLineBytes(text) == <<"data: ", "{\"text\": \"">> \o text \o <<"\"}", "\n">>
DoneLineBytes == <<"data: ", "[DO", "NE]", "\n">>

\* The lines a backend sends in the bodies explored.
BodyLines == { TokenLineBytes(<<"a">>),
               TokenLineBytes(<<LeadByte, ContinuationByte>>),
               DoneLineBytes }

RECURSIVE Flatten(_)
Flatten(seqs) == IF seqs = << >> THEN << >> ELSE Head(seqs) \o Flatten(Tail(seqs))

Bodies == {Flatten(ls) : ls \in SeqsUpTo(BodyLines, MaxBodyLines) \ {<< >>}}

\* chunk.decode('utf-8'): the characters of the chunk, or UnicodeDecodeError
\* when a lead byte is not followed by its continuation byte or a
\* continuation byte has no lead byte before it.
RECURSIVE decode(_)
decode(chunk) ==
    IF chunk = << >> THEN [ok |-> TRUE, text |-> << >>]
    ELSE IF Head(chunk) = ContinuationByte THEN [ok |-> FALSE, text |-> << >>]
    ELSE IF Head(chunk) = LeadByte
    THEN IF Len(chunk) >= 2 /\ chunk[2] = ContinuationByte
         THEN [ok |-> decode(Tail(Tail(chunk))).ok,
               text |-> <<TwoByteChar>> \o decode(Tail(Tail(chunk))).text]
         ELSE [ok |-> FALSE, text |-> << >>]
    ELSE [ok |-> decode(Tail(chunk)).ok,
          text |-> <<Head(chunk)>> \o decode(Tail(chunk)).text]

\* chunk_text.split('\n')
RECURSIVE split(_, _)
split(chunk_text, line) ==
    IF chunk_text = << >> THEN <<line>>
    ELSE IF Head(chunk_text) = "\n" THEN <<line>> \o split(Tail(chunk_text), << >>)
    ELSE split(Tail(chunk_text), Append(line, Head(chunk_text)))

\* The text of a token payload '{"text": "..."}', given what follows 'data: '.
IsTokenPayload(data_part) ==
    /\ Len(data_part) >= 2
    /\ Head(data_part) = "{\"text\": \""
    /\ data_part[Len(data_part)] = "\"}"
    /\ \A i \in 2..(Len(data_part) - 1) : data_part[i] \in TextChars

\* What the service makes of the characters of one line.
LineOf(line) ==
    IF line = << >> THEN Line(FALSE, "empty", "none", << >>)
    ELSE IF Head(line) # "data: " THEN Line(FALSE, "other", "none", << >>)
    ELSE IF Tail(line) = << >> THEN Line(TRUE, "empty", "none", << >>)
    ELSE IF Tail(line) = <<"[DO", "NE]">> THEN Line(TRUE, "sentinel", "none", << >>)
    ELSE IF IsTokenPayload(Tail(line))
    THEN Line(TRUE, "obj", "none", SubSeq(line, 3, Len(line) - 1))
    ELSE Line(TRUE, "garbage", "none", << >>)

\* for line in lines: the events of the lines of one chunk, up to and
\* including a done event.
RECURSIVE LineEvents(_)
LineEvents(lines) ==
    IF lines = << >> THEN << >>
    ELSE IF ~PassesFilter(Strip(LineOf(Head(lines)))) THEN LineEvents(Tail(lines))
    ELSE IF _process_stream_line(Strip(LineOf(Head(lines)))).kind = "raise" THEN << >>
    ELSE IF _process_stream_line(Strip(LineOf(Head(lines)))).event = NoEvent
    THEN LineEvents(Tail(lines))
    ELSE IF ReturnsAfterYield(_process_stream_line(Strip(LineOf(Head(lines)))).event)
    THEN <<_process_stream_line(Strip(LineOf(Head(lines)))).event>>
    ELSE <<_process_stream_line(Strip(LineOf(Head(lines)))).event>>
         \o LineEvents(Tail(lines))

\* The events of one chunk: none when it cannot be decoded.
ChunkEvents(chunk) ==
    IF decode(chunk).ok THEN LineEvents(split(decode(chunk).text, << >>)) ELSE << >>

EndsStream(evs) == evs # << >> /\ ReturnsAfterYield(evs[Len(evs)])

\* async for chunk in ...: the events of the chunks in turn, ending at a done
\* event, and the done event yielded when the body ends without one.
RECURSIVE ChunkLoop(_)
ChunkLoop(chunks) ==
    IF chunks = << >> THEN <<DoneEvent>>
    ELSE IF EndsStream(ChunkEvents(Head(chunks))) THEN ChunkEvents(Head(chunks))
    ELSE ChunkEvents(Head(chunks)) \o ChunkLoop(Tail(chunks))

\* The chunks of a body cut after the bytes numbered in cuts.
RECURSIVE Chunks(_, _, _)
Chunks(bytes, cuts, from) ==
    IF from > Len(bytes) THEN << >>
    ELSE IF \E c \in cuts : c >= from
    THEN <<SubSeq(bytes, from, CHOOSE c \in cuts : c >= from /\ \A d \in cuts : d >= from => c <= d)>>
         \o Chunks(bytes, cuts,
                   (CHOOSE c \in cuts : c >= from /\ \A d \in cuts : d >= from => c <= d) + 1)
    ELSE <<SubSeq(bytes, from, Len(bytes))>>

CutSets(bytes) ==
    {cuts \in SUBSET (1..(Len(bytes) - 1)) : Cardinality(cuts) <= MaxCuts}


ReadInit ==
    /\ ServiceInit
    /\ ParserIdle
    /\ ValidatorIdle
    /\ PayloadIdle
    /\ \E body \in Bodies : \E cuts \in CutSets(body) :
           readCall = <<[body |-> body, cuts |-> cuts]>>
    /\ readResult = NotCalled
    /\ scenario = Unrestricted

\* The body is read in the chunks the cuts make of it.
ReadBody ==
    /\ readResult = NotCalled
    /\ readResult' = <<ChunkLoop(Chunks(readCall[1].body, readCall[1].cuts, 1))>>
    /\ UNCHANGED <<service, frame, connecting, streaming, syncing, history, environment,
                   parserVars, validatorVars, payloadVars, readCall>>

ReadNext == ReadBody

ReadSpec == ReadInit /\ [][ReadNext]_vars

BodyRead == readResult # NotCalled

\* C25: the events yielded for a body cut into chunks are the events yielded
\* for the same body delivered as one chunk.
C25_PartitionIndependent ==
    BodyRead => readResult[1] = ChunkLoop(<<readCall[1].body>>)

\* C26: whenever is_connected is true there is a session (self.session is
\* not None), whatever calls have run and however they interleaved.
C26_ConnectedHasSession == is_connected => session # "None"

(***************************************************************************)
(* Specification: one caller at a time, every await completes.             *)
(***************************************************************************)
\* The steps of connect(): entering it, the answer or the failure of the
\* probe, the end of the backoff sleep.
ConnectStep(p) == ConnectBegin(p) \/ ProbeOk(p) \/ ProbeFail(p) \/ SleepDone(p)

\* The probe has a timeout and the backoff sleep ends, so a connect() that
\* can take a step takes one.
FairSpec == Spec /\ WF_vars(ConnectStep("p1"))

\* A connect() call of caller p has made at most max_retries probes and slept
\* at most max_retries - 1 times, and when it is over it has returned None
\* with the connection up or raised ConnectionError.
ConnectBounded(p) ==
    op[p] = "connect" =>
        /\ probes[p] <= max_retries
        /\ Len(sleeps[p]) <= max_retries - 1
        /\ pc[p] = "done" =>
               \/ outcome[p] = "returned" /\ retval[p] = "None" /\ is_connected
                  /\ probes[p] < max_retries
               \/ outcome[p] = "raised" /\ retval[p] = "ConnectionError"

\* C27: a connect() call made while no other call is running ends, by
\* returning or by raising ConnectionError, after at most max_retries probes
\* and at most max_retries - 1 backoff sleeps.
C27_ConnectTerminates ==
    /\ [](\A p \in Procs : ConnectBounded(p))
    /\ (op["p1"] = "connect" /\ pc["p1"] = "start") ~> (pc["p1"] = "done")

\* A connect() call that began with the counter at zero has raised after
\* three probes and two sleeps.
C27_Witness ==
    /\ op["p1"] = "connect"
    /\ pc["p1"] = "done"
    /\ outcome["p1"] = "raised"
    /\ startRetries["p1"] = 0
    /\ probes["p1"] = max_retries
    /\ Len(sleeps["p1"]) = max_retries - 1

(***************************************************************************)
(* Specification: suggest_fix called with any code and any issue list.     *)
(***************************************************************************)
\* One issue of each kind suggest_fix tells apart, and one it passes over.
IssueKinds == {Unclosed(1), OddSingleQuotes, OddDoubleQuotes, ExtraCloser}

IssueLists == SeqsUpTo(IssueKinds, MaxIssues)

\* The codes: the characters suggest_fix counts, a bracket and a letter it
\* does not.
FixCodes == SeqsUpTo({"(", ")", "'", "\"", "[", "x"}, MaxCode)

FixInit ==
    /\ ServiceInit
    /\ ParserIdle
    /\ \E code \in FixCodes, issues \in IssueLists :
           validatorCall = ValidatorCall("suggest_fix", code, issues, << >>)
    /\ validatorResult = NotCalled
    /\ PayloadIdle
    /\ ReadIdle
    /\ scenario = Unrestricted

FixNext == SuggestFix

FixSpec == FixInit /\ [][FixNext]_vars

\* The characters suggest_fix may append.
Repairs == {")", "'", "\""}

IsPrefixOf(s, t) == Len(s) <= Len(t) /\ SubSeq(t, 1, Len(s)) = s

\* C28: the result of suggest_fix begins with the code it was given, what
\* follows is made of ')' and quote characters only, and suggest_fix applied
\* to the result with the same issue list returns the result.
C28_AppendOnlyIdempotent ==
    Returned("suggest_fix") =>
        /\ IsPrefixOf(validatorCall.code, validatorResult[1])
        /\ \A i \in (Len(validatorCall.code) + 1)..Len(validatorResult[1]) :
               validatorResult[1][i] \in Repairs
        /\ suggest_fix(validatorResult[1], validatorCall.issues) = validatorResult[1]

\* suggest_fix has appended a parenthesis and a quote to a code.
C28_Witness ==
    /\ Returned("suggest_fix")
    /\ Len(validatorResult[1]) >= Len(validatorCall.code) + 2
    /\ validatorResult[1][Len(validatorResult[1])] \in Quotes
    /\ ")" \in {validatorResult[1][i] :
                  i \in (Len(validatorCall.code) + 1)..Len(validatorResult[1])}

=============================================================================
